---- MODULE Spec2Model ----
(***************************************************************************)
(* Model of the azure-key-vault facade (AzureKeyVault), its tree codec     *)
(* (flatten / deflatten) and the in-memory secret client (AkvClientMock).  *)
(*                                                                         *)
(* Strings are sequences of one-character strings, so that split, replace  *)
(* and lower-casing are computed as the code computes them.  JavaScript    *)
(* values are tagged pairs <<type, payload>>; objects keep their insertion *)
(* order as a sequence of <<key, value>> pairs.                            *)
(***************************************************************************)
EXTENDS Integers, Sequences, FiniteSets, TLC

VARIABLES
    facades,    \* the AzureKeyVault instances: their constructor config
    secrets,    \* AkvClientMock.secrets: insertion-ordered <<name, secret>> pairs
    last,       \* the last call made on a facade, with what it returned
    script,     \* the mutating calls made in a row on one key of one facade
    tree,       \* codec: the nested structure handed to flatten
    flat,       \* codec: the flat mapping handed to deflatten
    rebuilt,    \* codec: what deflatten returned
    pending     \* the setAll or getFor call that has started and not returned

vars == <<facades, secrets, last, script, tree, flat, rebuilt, pending>>

(***************************************************************************)
(* JavaScript values                                                       *)
(***************************************************************************)
Undefined == <<"undefined", <<>>>>
Null == <<"null", <<>>>>
Bool(b) == <<"boolean", b>>
Num(n) == <<"number", n>>
Str(s) == <<"string", s>>
Arr(xs) == <<"array", xs>>
Obj(es) == <<"object", es>>

IsString(v) == v[1] = "string"
IsArray(v) == v[1] = "array"
IsObject(v) == v[1] = "object"
IsNullish(v) == v[1] \in {"null", "undefined"}

\* JavaScript truthiness (ToBoolean).
Truthy(v) ==
    CASE v[1] = "undefined" -> FALSE
      [] v[1] = "null" -> FALSE
      [] v[1] = "boolean" -> v[2]
      [] v[1] = "number" -> v[2] # 0
      [] v[1] = "string" -> Len(v[2]) > 0
      [] OTHER -> TRUE

\* a ?? b
Coalesce(a, b) == IF IsNullish(a) THEN b ELSE a

(***************************************************************************)
(* Objects as insertion-ordered entry lists                                *)
(***************************************************************************)
RECURSIVE IndexOf(_, _, _)
IndexOf(es, key, i) ==
    IF i > Len(es) THEN 0
    ELSE IF es[i][1] = key THEN i
    ELSE IndexOf(es, key, i + 1)

HasKey(es, key) == IndexOf(es, key, 1) # 0

\* obj[key]: undefined when the property is missing.
Lookup(es, key) ==
    LET i == IndexOf(es, key, 1) IN IF i = 0 THEN Undefined ELSE es[i][2]

\* obj[key] = value: an existing property keeps its place, a new one goes last.
Assign(es, key, value) ==
    LET i == IndexOf(es, key, 1)
    IN  IF i = 0 THEN Append(es, <<key, value>>)
        ELSE [es EXCEPT ![i] = <<key, value>>]

\* delete obj[key]
Remove(es, key) ==
    LET i == IndexOf(es, key, 1)
    IN  IF i = 0 THEN es
        ELSE SubSeq(es, 1, i - 1) \o SubSeq(es, i + 1, Len(es))

\* Object.assign(target, source)
RECURSIVE ObjectAssign(_, _)
ObjectAssign(target, source) ==
    IF source = <<>> THEN target
    ELSE ObjectAssign(Assign(target, source[1][1], source[1][2]), Tail(source))

\* Deep equality of two values, the order of an object's properties ignored.
RECURSIVE DeepEq(_, _)
DeepEq(a, b) ==
    IF a[1] # b[1] THEN FALSE
    ELSE IF a[1] = "array" THEN
        /\ Len(a[2]) = Len(b[2])
        /\ \A i \in 1..Len(a[2]) : DeepEq(a[2][i], b[2][i])
    ELSE IF a[1] = "object" THEN
        /\ Len(a[2]) = Len(b[2])
        /\ \A i \in 1..Len(a[2]) :
              /\ HasKey(b[2], a[2][i][1])
              /\ DeepEq(a[2][i][2], Lookup(b[2], a[2][i][1]))
    ELSE a[2] = b[2]

(***************************************************************************)
(* Strings                                                                 *)
(***************************************************************************)
SEP == <<"-", "-">>

\* String.prototype.split('--'): the pieces between the non-overlapping
\* occurrences of '--', found from left to right.
RECURSIVE SplitFrom(_, _, _)
SplitFrom(s, cur, acc) ==
    IF s = <<>> THEN Append(acc, cur)
    ELSE IF Len(s) >= 2 /\ s[1] = "-" /\ s[2] = "-"
         THEN SplitFrom(SubSeq(s, 3, Len(s)), <<>>, Append(acc, cur))
    ELSE SplitFrom(Tail(s), Append(cur, s[1]), acc)

SplitDashes(s) == SplitFrom(s, <<>>, <<>>)

\* String.prototype.split(/:|--/)
RECURSIVE SplitSectionsFrom(_, _, _)
SplitSectionsFrom(s, cur, acc) ==
    IF s = <<>> THEN Append(acc, cur)
    ELSE IF s[1] = ":"
         THEN SplitSectionsFrom(Tail(s), <<>>, Append(acc, cur))
    ELSE IF Len(s) >= 2 /\ s[1] = "-" /\ s[2] = "-"
         THEN SplitSectionsFrom(SubSeq(s, 3, Len(s)), <<>>, Append(acc, cur))
    ELSE SplitSectionsFrom(Tail(s), Append(cur, s[1]), acc)

SplitSections(s) == SplitSectionsFrom(s, <<>>, <<>>)

\* Array.prototype.join(sep)
RECURSIVE Join(_, _)
Join(parts, sep) ==
    IF parts = <<>> THEN <<>>
    ELSE IF Len(parts) = 1 THEN parts[1]
    ELSE parts[1] \o sep \o Join(Tail(parts), sep)

\* String.prototype.includes(c) for a one-character c
Includes(s, c) == \E i \in 1..Len(s) : s[i] = c

\* .replace(/[_ ]+/g, '-'): every run of underscores and spaces becomes one dash.
RECURSIVE ReplaceBlanks(_, _)
ReplaceBlanks(s, inRun) ==
    IF s = <<>> THEN <<>>
    ELSE IF s[1] \in {"_", " "}
         THEN (IF inRun THEN <<>> ELSE <<"-">>) \o ReplaceBlanks(Tail(s), TRUE)
    ELSE <<s[1]>> \o ReplaceBlanks(Tail(s), FALSE)

\* .replace(/:/g, '--')
RECURSIVE ReplaceColons(_)
ReplaceColons(s) ==
    IF s = <<>> THEN <<>>
    ELSE (IF s[1] = ":" THEN <<"-", "-">> ELSE <<s[1]>>) \o ReplaceColons(Tail(s))

\* .replace(/[$]/g, '')
RECURSIVE RemoveDollars(_)
RemoveDollars(s) ==
    IF s = <<>> THEN <<>>
    ELSE (IF s[1] = "$" THEN <<>> ELSE <<s[1]>>) \o RemoveDollars(Tail(s))

Upper == <<"A", "B", "C", "D", "E", "F", "G", "H", "I", "J", "K", "L", "M",
           "N", "O", "P", "Q", "R", "S", "T", "U", "V", "W", "X", "Y", "Z">>
Lower == <<"a", "b", "c", "d", "e", "f", "g", "h", "i", "j", "k", "l", "m",
           "n", "o", "p", "q", "r", "s", "t", "u", "v", "w", "x", "y", "z">>

LowerChar(c) ==
    IF \E i \in 1..Len(Upper) : Upper[i] = c
    THEN Lower[CHOOSE i \in 1..Len(Upper) : Upper[i] = c]
    ELSE c

\* String.prototype.toLowerCase()
ToLowerCase(s) == [i \in 1..Len(s) |-> LowerChar(s[i])]

(***************************************************************************)
(* Tree codec: flatten.util.ts                                             *)
(***************************************************************************)
\* What a raised TypeError leaves in place of a result.
TypeError == <<"throw", <<"T", "y", "p", "e", "E", "r", "r", "o", "r">>>>
IsThrow(v) == v[1] = "throw"

\* An array that was given named properties (arrays are objects).
ArrProps(xs, es) == <<"array+props", <<xs, es>>>>

\* flatten(secrets, namespace): the loop over the keys of `secrets` (a list
\* of entries), `flattened` being the mapping built so far.
RECURSIVE flattenLoop(_, _, _)
flattenLoop(es, namespace, flattened) ==
    IF es = <<>> THEN flattened
    ELSE
        LET key == es[1][1]
            value == es[1][2]
        IN  IF ~IsObject(value)
            THEN flattenLoop(Tail(es), namespace,
                             Assign(flattened, namespace \o key, value))
            ELSE flattenLoop(Tail(es), namespace,
                             ObjectAssign(flattened,
                                 flattenLoop(value[2], namespace \o key \o SEP, <<>>)))

flatten(input) == flattenLoop(input, <<>>, <<>>)

\* rearmTree(restored, members, value): `restored` is the node (a value) the
\* members are set in; the code mutates it, the model returns the new node, or
\* TypeError (a module is strict code: a property cannot be created on a
\* primitive).  `Entries`/`Rewrap` read and write the named properties of a
\* node that is an object or an array.
Entries(node) == IF node[1] = "object" THEN node[2]
                 ELSE IF node[1] = "array" THEN <<>>
                 ELSE node[2][2]

Rewrap(node, es) == IF node[1] = "object" THEN Obj(es)
                    ELSE IF node[1] = "array" THEN ArrProps(node[2], es)
                    ELSE ArrProps(node[2][1], es)

RECURSIVE rearmTree(_, _, _)
rearmTree(restored, members, value) ==
    LET namespace == members[1]
        rest == Tail(members)
    IN  IF restored[1] \in {"string", "number", "boolean"} THEN TypeError
        ELSE IF Len(members) = 1
        THEN Rewrap(restored, Assign(Entries(restored), namespace, value))
        ELSE
            LET child == Lookup(Entries(restored), namespace)
                node == IF ~Truthy(child) THEN Obj(<<>>) ELSE child
                sub == rearmTree(node, rest, value)
            IN  IF IsThrow(sub) THEN sub
                ELSE Rewrap(restored, Assign(Entries(restored), namespace, sub))

RECURSIVE deflattenLoop(_, _)
deflattenLoop(es, restoredNode) ==
    IF es = <<>> \/ IsThrow(restoredNode) THEN restoredNode
    ELSE deflattenLoop(Tail(es),
                       rearmTree(restoredNode, SplitDashes(es[1][1]), es[1][2]))

\* deflatten(secrets): the restored object (as a value), or TypeError.
deflatten(input) == deflattenLoop(input, Obj(<<>>))

(***************************************************************************)
(* JSON.stringify and JSON.parse, on the values above.  Numbers are        *)
(* naturals; strings hold no quote and no backslash.                       *)
(***************************************************************************)
DigitChars == <<"0", "1", "2", "3", "4", "5", "6", "7", "8", "9">>
IsDigit(c) == \E d \in 1..10 : DigitChars[d] = c
DigitOf(c) == (CHOOSE d \in 1..10 : DigitChars[d] = c) - 1

RECURSIVE NumberToString(_)
NumberToString(n) ==
    IF n < 10 THEN <<DigitChars[n + 1]>>
    ELSE NumberToString(n \div 10) \o <<DigitChars[(n % 10) + 1]>>

QUOTE == "\""
Quoted(s) == <<QUOTE>> \o s \o <<QUOTE>>

\* The JSON text of a value inside an array or as a property: undefined has
\* none (<<>> stands for "no text").
RECURSIVE JsonText(_)
RECURSIVE JsonItems(_, _)
RECURSIVE JsonProps(_, _)
JsonText(v) ==
    CASE v[1] = "null" -> <<"n", "u", "l", "l">>
      [] v[1] = "boolean" -> IF v[2] THEN <<"t", "r", "u", "e">>
                             ELSE <<"f", "a", "l", "s", "e">>
      [] v[1] = "number" -> NumberToString(v[2])
      [] v[1] = "string" -> Quoted(v[2])
      [] v[1] = "array" -> <<"[">> \o JsonItems(v[2], TRUE) \o <<"]">>
      [] v[1] = "object" -> <<"{">> \o JsonProps(v[2], TRUE) \o <<"}">>
      [] OTHER -> <<>>

\* The items of an array: undefined is written as null.
JsonItems(xs, first) ==
    IF xs = <<>> THEN <<>>
    ELSE (IF first THEN <<>> ELSE <<",">>)
         \o (IF xs[1][1] = "undefined" THEN JsonText(Null) ELSE JsonText(xs[1]))
         \o JsonItems(Tail(xs), FALSE)

\* The properties of an object: one whose value is undefined is left out.
JsonProps(es, first) ==
    IF es = <<>> THEN <<>>
    ELSE IF es[1][2][1] = "undefined" THEN JsonProps(Tail(es), first)
    ELSE (IF first THEN <<>> ELSE <<",">>)
         \o Quoted(es[1][1]) \o <<":">> \o JsonText(es[1][2])
         \o JsonProps(Tail(es), FALSE)

\* JSON.stringify(value): a string, or undefined for undefined.
JSONstringify(v) == IF v[1] = "undefined" THEN Undefined ELSE Str(JsonText(v))

SyntaxError == <<"throw", <<"S", "y", "n", "t", "a", "x", "E", "r", "r", "o", "r">>>>

NoParse == [ok |-> FALSE, val |-> Undefined, next |-> 0]
Parsed(v, n) == [ok |-> TRUE, val |-> v, next |-> n]

StartsWith(s, i, lit) ==
    /\ i + Len(lit) - 1 <= Len(s)
    /\ \A j \in 1..Len(lit) : s[i + j - 1] = lit[j]

\* The index after the run of digits that starts at i.
RECURSIVE DigitsEnd(_, _)
DigitsEnd(s, i) == IF i <= Len(s) /\ IsDigit(s[i]) THEN DigitsEnd(s, i + 1) ELSE i

RECURSIVE StringToNumber(_, _)
StringToNumber(ds, acc) ==
    IF ds = <<>> THEN acc ELSE StringToNumber(Tail(ds), acc * 10 + DigitOf(ds[1]))

\* The index of the closing quote at or after i, 0 when there is none.
RECURSIVE QuoteAt(_, _)
QuoteAt(s, i) == IF i > Len(s) THEN 0 ELSE IF s[i] = QUOTE THEN i ELSE QuoteAt(s, i + 1)

RECURSIVE ParseValue(_, _)
RECURSIVE ParseItems(_, _, _)
RECURSIVE ParseProps(_, _, _)
ParseValue(s, i) ==
    IF i > Len(s) THEN NoParse
    ELSE IF StartsWith(s, i, <<"n", "u", "l", "l">>) THEN Parsed(Null, i + 4)
    ELSE IF StartsWith(s, i, <<"t", "r", "u", "e">>) THEN Parsed(Bool(TRUE), i + 4)
    ELSE IF StartsWith(s, i, <<"f", "a", "l", "s", "e">>) THEN Parsed(Bool(FALSE), i + 5)
    ELSE IF IsDigit(s[i]) THEN
        LET e == DigitsEnd(s, i)
        IN  IF s[i] = "0" /\ e > i + 1 THEN NoParse
            ELSE Parsed(Num(StringToNumber(SubSeq(s, i, e - 1), 0)), e)
    ELSE IF s[i] = QUOTE THEN
        LET q == QuoteAt(s, i + 1)
        IN  IF q = 0 THEN NoParse ELSE Parsed(Str(SubSeq(s, i + 1, q - 1)), q + 1)
    ELSE IF s[i] = "[" THEN
        IF i + 1 <= Len(s) /\ s[i + 1] = "]" THEN Parsed(Arr(<<>>), i + 2)
        ELSE ParseItems(s, i + 1, <<>>)
    ELSE IF s[i] = "{" THEN
        IF i + 1 <= Len(s) /\ s[i + 1] = "}" THEN Parsed(Obj(<<>>), i + 2)
        ELSE ParseProps(s, i + 1, <<>>)
    ELSE NoParse

\* The items of an array from i on, up to and including its "]".
ParseItems(s, i, acc) ==
    LET item == ParseValue(s, i)
    IN  IF ~item.ok \/ item.next > Len(s) THEN NoParse
        ELSE IF s[item.next] = "]" THEN Parsed(Arr(Append(acc, item.val)), item.next + 1)
        ELSE IF s[item.next] = "," THEN ParseItems(s, item.next + 1, Append(acc, item.val))
        ELSE NoParse

\* The properties of an object from i on, up to and including its "}".
ParseProps(s, i, acc) ==
    LET name == ParseValue(s, i)
    IN  IF ~name.ok \/ name.val[1] # "string" \/ name.next > Len(s) THEN NoParse
        ELSE IF s[name.next] # ":" THEN NoParse
        ELSE
            LET item == ParseValue(s, name.next + 1)
            IN  IF ~item.ok \/ item.next > Len(s) THEN NoParse
                ELSE IF s[item.next] = "}"
                THEN Parsed(Obj(Assign(acc, name.val[2], item.val)), item.next + 1)
                ELSE IF s[item.next] = ","
                THEN ParseProps(s, item.next + 1, Assign(acc, name.val[2], item.val))
                ELSE NoParse

\* JSON.parse(text): the value, or SyntaxError.
JSONparse(s) ==
    LET r == ParseValue(s, 1)
    IN  IF r.ok /\ r.next = Len(s) + 1 THEN r.val ELSE SyntaxError

(***************************************************************************)
(* AkvClientMock: the secret client the facade talks to.  `ss` is its      *)
(* `secrets` dictionary; every operation returns the new dictionary and    *)
(* what the call gave back (a record, or a raised Error).                  *)
(***************************************************************************)
DELETED_PREFIX == <<"_", "_", "_", "d", "e", "l", "e", "t", "e", "d", "_", "_", "_">>

Error == <<"throw", <<"E", "r", "r", "o", "r">>>>
Secret(rec) == <<"secret", rec>>
Void == <<"void", <<>>>>

Outcome(ss, ret) == [store |-> ss, ret |-> ret]

\* Mutant: a name that is already in the dictionary keeps its first record.
setSecret_KeepExisting(ss, secretName, value, tags) ==
    LET rec == [name |-> secretName, value |-> value, tags |-> tags]
    IN  IF HasKey(ss, secretName) THEN Outcome(ss, Secret(Lookup(ss, secretName)))
        ELSE Outcome(Assign(ss, secretName, rec), Secret(rec))

setSecret(ss, secretName, value, tags) ==
    LET rec == [name |-> secretName, value |-> value, tags |-> tags]
    IN  Outcome(Assign(ss, secretName, rec), Secret(rec))

getSecret(ss, secretName) ==
    IF ~HasKey(ss, secretName) THEN Outcome(ss, Error)
    ELSE Outcome(ss, Secret(Lookup(ss, secretName)))

\* Mutant: the record is copied to its deleted name and stays active too.
beginDeleteSecret_KeepActive(ss, name) ==
    IF ~HasKey(ss, name) THEN Outcome(ss, Error)
    ELSE
        LET deletedName == DELETED_PREFIX \o name
            copied == Assign(ss, deletedName, Lookup(ss, name))
        IN  Outcome(copied, Secret(Lookup(copied, deletedName)))

beginDeleteSecret(ss, name) ==
    IF ~HasKey(ss, name) THEN Outcome(ss, Error)
    ELSE
        LET deletedName == DELETED_PREFIX \o name
            moved == Remove(Assign(ss, deletedName, Lookup(ss, name)), name)
        IN  Outcome(moved, Secret(Lookup(moved, deletedName)))

\* Mutant: the call answers without dropping the deleted record.
purgeDeletedSecret_KeepDeleted(ss, secretName) ==
    LET deletedName == DELETED_PREFIX \o secretName
    IN  IF ~HasKey(ss, deletedName) THEN Outcome(ss, Error)
        ELSE Outcome(ss, Void)

purgeDeletedSecret(ss, secretName) ==
    LET deletedName == DELETED_PREFIX \o secretName
    IN  IF ~HasKey(ss, deletedName) THEN Outcome(ss, Error)
        ELSE Outcome(Remove(ss, deletedName), Void)

\* Mutant: the deleted record is dropped and nothing is put back.
beginRecoverDeletedSecret_DropOnly(ss, name) ==
    LET deletedName == DELETED_PREFIX \o name
    IN  IF HasKey(ss, name) \/ ~HasKey(ss, deletedName) THEN Outcome(ss, Error)
        ELSE Outcome(Remove(ss, deletedName), Secret(Lookup(ss, deletedName)))

\* Mutant: an active secret of the same name does not stop the recovery.
beginRecoverDeletedSecret_OverActive(ss, name) ==
    LET deletedName == DELETED_PREFIX \o name
    IN  IF ~HasKey(ss, deletedName) THEN Outcome(ss, Error)
        ELSE
            LET moved == Remove(Assign(ss, name, Lookup(ss, deletedName)), deletedName)
            IN  Outcome(moved, Secret(Lookup(moved, name)))

beginRecoverDeletedSecret(ss, name) ==
    LET deletedName == DELETED_PREFIX \o name
    IN  IF HasKey(ss, name) \/ ~HasKey(ss, deletedName) THEN Outcome(ss, Error)
        ELSE
            LET moved == Remove(Assign(ss, name, Lookup(ss, deletedName)), deletedName)
            IN  Outcome(moved, Secret(Lookup(moved, name)))

(***************************************************************************)
(* AzureKeyVault: the facade                                               *)
(***************************************************************************)
\* `${text}` of a config field used in a prefix: '-' and the field when it is
\* truthy, nothing otherwise.
DashField(field) == IF Truthy(field) THEN <<"-">> \o field[2] ELSE <<>>

DefaultSharedGroup == Str(<<"S", "H", "A", "R", "E", "D">>)

\* Mutant: the group is left out of the prefix.
AzureKeyVault_NoGroup(config) ==
    [project |-> config.project,
     group |-> config.group,
     env |-> config.env,
     sharedGroup |-> IF config.sharedGroup[1] = "undefined"
                     THEN DefaultSharedGroup ELSE config.sharedGroup,
     prefix |-> config.project[2] \o DashField(config.env),
     prefixShared |-> config.project[2] \o DashField(config.env)]

\* constructor(config): the fields of the instance.
AzureKeyVault(config) ==
    [project |-> config.project,
     group |-> config.group,
     env |-> config.env,
     sharedGroup |-> IF config.sharedGroup[1] = "undefined"
                     THEN DefaultSharedGroup ELSE config.sharedGroup,
     prefix |-> config.project[2] \o DashField(config.group) \o DashField(config.env),
     prefixShared |-> config.project[2] \o DashField(config.env)]

\* Mutant: ':' is not rewritten as '--'.
secretName_KeepColons(this, key, isShared) ==
    LET prefix == IF isShared THEN this.prefixShared ELSE this.prefix
    IN  ToLowerCase(RemoveDollars(ReplaceBlanks(prefix \o <<"-">> \o key, FALSE)))

secretName(this, key, isShared) ==
    LET prefix == IF isShared THEN this.prefixShared ELSE this.prefix
    IN  ToLowerCase(RemoveDollars(ReplaceColons(
            ReplaceBlanks(prefix \o <<"-">> \o key, FALSE))))

\* key.includes('$'): how get, getInfo, delete, purge and restore classify a key.
keyIsShared(key) == Includes(key, "$")

\* Mutant: the stored string is returned as it is, never parsed.
decode_Raw(value, tags) == value

\* The decoding at the end of get: serialized === '1' && value ? JSON.parse(value) : value
decode(value, tags) ==
    IF tags.serialized = Str(<<"1">>) /\ Truthy(value) THEN JSONparse(value[2]) ELSE value

\* Mutant: what getSecret raises is raised by get.
get_Raises(this, ss, key) ==
    LET got == getSecret(ss, secretName(this, key, keyIsShared(key))).ret
    IN  IF IsThrow(got) THEN got
        ELSE LET value == decode(got[2].value, got[2].tags)
             IN  IF IsThrow(value) THEN Null ELSE value

\* get(key, serialized): whatever is raised inside becomes null.
get(this, ss, key) ==
    LET got == getSecret(ss, secretName(this, key, keyIsShared(key))).ret
    IN  IF IsThrow(got) THEN Null
        ELSE LET value == decode(got[2].value, got[2].tags)
             IN  IF IsThrow(value) THEN Null ELSE value

\* Mutant: a missing secret gives null, as in get.
getInfo_NullOnAbsent(this, ss, key) ==
    LET got == getSecret(ss, secretName(this, key, keyIsShared(key))).ret
    IN  IF IsThrow(got) THEN Null ELSE got

getInfo(this, ss, key) ==
    getSecret(ss, secretName(this, key, keyIsShared(key))).ret

\* a ?? ''
OrEmpty(v) == Coalesce(v, Str(<<>>))

\* Mutant: set looks at the first character of the whole key.
setIsShared_KeyStart(key) == Len(key) > 0 /\ key[1] = "$"

\* How set classifies a key: the last section begins with '$'.
setIsShared(key) ==
    LET sections == SplitSections(key)
        name == sections[Len(sections)]
    IN  Len(name) > 0 /\ name[1] = "$"

\* Mutant: the name tag is written without its leading '$'.
setTags_Stripped(this, key, value) ==
    LET sections == SplitSections(key)
    IN  [name |-> Str(RemoveDollars(sections[Len(sections)])),
         path |-> Str(Join(SubSeq(sections, 1, Len(sections) - 1), SEP)),
         env |-> OrEmpty(this.env),
         project |-> this.project,
         group |-> OrEmpty(IF setIsShared(key) THEN this.sharedGroup ELSE this.group),
         serialized |-> IF IsString(value) THEN Str(<<"0">>) ELSE Str(<<"1">>)]

\* Mutant: the group tag is the facade's group for every key.
setTags_OwnGroup(this, key, value) ==
    LET sections == SplitSections(key)
    IN  [name |-> Str(sections[Len(sections)]),
         path |-> Str(Join(SubSeq(sections, 1, Len(sections) - 1), SEP)),
         env |-> OrEmpty(this.env),
         project |-> this.project,
         group |-> OrEmpty(this.group),
         serialized |-> IF IsString(value) THEN Str(<<"0">>) ELSE Str(<<"1">>)]

\* The tags set writes.
setTags(this, key, value) ==
    LET sections == SplitSections(key)
    IN  [name |-> Str(sections[Len(sections)]),
         path |-> Str(Join(SubSeq(sections, 1, Len(sections) - 1), SEP)),
         env |-> OrEmpty(this.env),
         project |-> this.project,
         group |-> OrEmpty(IF setIsShared(key) THEN this.sharedGroup ELSE this.group),
         serialized |-> IF IsString(value) THEN Str(<<"0">>) ELSE Str(<<"1">>)]

\* What set stores: the string itself, or the JSON text of another value.
encode(value) == IF IsString(value) THEN value ELSE JSONstringify(value)

set(this, ss, key, value) ==
    setSecret(ss, secretName(this, key, setIsShared(key)), encode(value),
              setTags(this, key, value))

\* Mutant: what beginDeleteSecret raises is raised by delete.
delete_Raises(this, ss, key) ==
    beginDeleteSecret(ss, secretName(this, key, keyIsShared(key)))

\* delete(key): a raised Error becomes null.
delete(this, ss, key) ==
    LET out == beginDeleteSecret(ss, secretName(this, key, keyIsShared(key)))
    IN  IF IsThrow(out.ret) THEN Outcome(ss, Null) ELSE out

\* Mutant: what purgeDeletedSecret raises is raised by purge.
purge_Raises(this, ss, key) ==
    purgeDeletedSecret(ss, secretName(this, key, keyIsShared(key)))

\* purge(key): an Error raised by the call itself becomes null.
purge(this, ss, key) ==
    LET out == purgeDeletedSecret(ss, secretName(this, key, keyIsShared(key)))
    IN  IF IsThrow(out.ret) THEN Outcome(ss, Null) ELSE out

\* restore(key): a raised Error becomes null.
restore(this, ss, key) ==
    LET out == beginRecoverDeletedSecret(ss, secretName(this, key, keyIsShared(key)))
    IN  IF IsThrow(out.ret) THEN Outcome(ss, Null) ELSE out

\* Mutants of needsFetch: an empty array default is kept like any array; the
\* override flag is not looked at; every key is fetched.
\* getFor(secrets, override): the first loop starts a fetch (a call of get)
\* or takes the default; with this client every fetch has read the dictionary
\* before the loop goes on.  `acc` is the flat mapping being filled in.
needsFetch_ArraysKept(secret, override) == override \/ ~Truthy(secret)

needsFetch_NoOverride(secret, override) ==
    ~Truthy(secret) \/ (IsArray(secret) /\ Len(secret[2]) = 0)

needsFetch_Always(secret, override) == TRUE

needsFetch(secret, override) ==
    override \/ ~Truthy(secret) \/ (IsArray(secret) /\ Len(secret[2]) = 0)

RECURSIVE getForLoop(_, _, _, _, _)
getForLoop(this, ss, es, override, acc) ==
    IF es = <<>> THEN acc
    ELSE
        LET key == es[1][1]
            secret == es[1][2]
            value == IF needsFetch(secret, override) THEN get(this, ss, key) ELSE secret
        IN  getForLoop(this, ss, Tail(es), override,
                       Assign(acc, key, Coalesce(value, secret)))

\* The keys getFor fetches, in order.
RECURSIVE fetchedKeys(_, _)
fetchedKeys(es, override) ==
    IF es = <<>> THEN <<>>
    ELSE (IF needsFetch(es[1][2], override) THEN <<es[1][1]>> ELSE <<>>)
         \o fetchedKeys(Tail(es), override)

getFor(this, ss, input, override) ==
    deflatten(getForLoop(this, ss, flatten(input), override, flatten(input)))

\* key.startsWith(DELETED_PREFIX)
IsDeletedName(name) ==
    /\ Len(name) >= Len(DELETED_PREFIX)
    /\ SubSeq(name, 1, Len(DELETED_PREFIX)) = DELETED_PREFIX

\* listPropertiesOfSecrets(): the properties of every entry of the dictionary,
\* the entries kept under a deleted name included, in the dictionary's order.
listPropertiesOfSecrets(ss) == [i \in 1..Len(ss) |-> ss[i][2]]

\* (path ? `${path}${sep}` : '') + name
listKey(tags, sep) ==
    (IF Truthy(tags.path) THEN tags.path[2] \o sep ELSE <<>>) \o tags.name[2]

\* project === this.project && env === this.env && (isShared || group === this.group)
inNamespace(this, tags, isShared) ==
    /\ tags.project = this.project
    /\ tags.env = this.env
    /\ isShared \/ tags.group = this.group

\* getAll(): the loop over the listed properties; `acc` is the flat mapping
\* built so far.  The hint handed to get is not used by get.
RECURSIVE getAllLoop(_, _, _, _)
getAllLoop(this, ss, items, acc) ==
    IF items = <<>> THEN acc
    ELSE
        LET tags == items[1].tags
            key == listKey(tags, SEP)
            isShared == tags.group = this.sharedGroup
        IN  getAllLoop(this, ss, Tail(items),
                       IF inNamespace(this, tags, isShared)
                       THEN Assign(acc, key, get(this, ss, key))
                       ELSE acc)

getAll(this, ss) ==
    deflatten(getAllLoop(this, ss, listPropertiesOfSecrets(ss), <<>>))

\* setAll(secrets): one set after the other over the flattened input, in its
\* order; the result holds the record every set returned.
RECURSIVE setAllLoop(_, _, _, _)
setAllLoop(this, ss, es, results) ==
    IF es = <<>> THEN Outcome(ss, <<"secrets", results>>)
    ELSE
        LET out == set(this, ss, es[1][1], es[1][2])
        IN  setAllLoop(this, out.store, Tail(es), Append(results, out.ret[2]))

setAll(this, ss, input) == setAllLoop(this, ss, flatten(input), <<>>)

\* listDeletedSecrets(): the records kept under a deleted name, in the
\* dictionary's order.
RECURSIVE listDeletedSecrets(_)
listDeletedSecrets(ss) ==
    IF ss = <<>> THEN <<>>
    ELSE (IF IsDeletedName(ss[1][1]) THEN <<ss[1][2]>> ELSE <<>>)
         \o listDeletedSecrets(Tail(ss))

\* The call deleteAll, purgeAll or restoreAll makes for a listed key.
bulkCall(op, this, ss, key) ==
    IF op = "delete" THEN delete(this, ss, key)
    ELSE IF op = "purge" THEN purge(this, ss, key)
    ELSE restore(this, ss, key)

\* Mutant: the shared secrets are taken whatever skipShared says.
bulkIsShared_NeverSkipped(this, tags, skipShared) == tags.group = this.sharedGroup

\* const isShared = !skipShared && group === this.sharedGroup
bulkIsShared(this, tags, skipShared) == ~skipShared /\ tags.group = this.sharedGroup

\* The loop of deleteAll, purgeAll and restoreAll over the listed items (they
\* were listed before the first call): one awaited call after the other.
RECURSIVE bulkLoop(_, _, _, _, _)
bulkLoop(op, this, ss, items, skipShared) ==
    IF items = <<>> THEN ss
    ELSE
        LET tags == items[1].tags
            key == listKey(tags, <<":">>)
        IN  bulkLoop(op, this,
                     IF inNamespace(this, tags, bulkIsShared(this, tags, skipShared))
                     THEN bulkCall(op, this, ss, key).store ELSE ss,
                     Tail(items), skipShared)

deleteAll(this, ss, skipShared) ==
    Outcome(bulkLoop("delete", this, ss, listPropertiesOfSecrets(ss), skipShared), Undefined)

purgeAll(this, ss, skipShared) ==
    Outcome(bulkLoop("purge", this, ss, listDeletedSecrets(ss), skipShared), Undefined)

\* Mutant: restoreAll purges what it lists.
restoreAll_Purges(this, ss, skipShared) ==
    Outcome(bulkLoop("purge", this, ss, listDeletedSecrets(ss), skipShared), Undefined)

restoreAll(this, ss, skipShared) ==
    Outcome(bulkLoop("restore", this, ss, listDeletedSecrets(ss), skipShared), Undefined)

(***************************************************************************)
(* A client whose requests can fail.  `fault` says what the client does    *)
(* with one request: "none" (it answers as AkvClientMock does), "raise"    *)
(* (the call itself throws) or "reject" (the promise it returned is        *)
(* rejected later); "poll" is the rejection of pollUntilDone() after a     *)
(* begin... call that went through.  A request that fails changes nothing  *)
(* in the store.                                                           *)
(***************************************************************************)
Failure == <<"throw", <<"F", "a", "i", "l", "u", "r", "e">>>>

Faults == {"none", "raise", "reject"}

\* set(key, value) hands back the promise of client.setSecret: a failure of
\* the request, at once or later, is what the caller gets.
setOn(this, ss, key, value, fault) ==
    IF fault # "none" THEN Outcome(ss, Failure) ELSE set(this, ss, key, value)

\* setAll(secrets) as it runs: `job.secrets` is the flattened input,
\* `job.i` the position of the for-in loop, `job.results` the records pushed
\* so far.
setAllJob(f, input) ==
    [op |-> "setAll", f |-> f, arg |-> input, secrets |-> flatten(input),
     i |-> 1, results |-> <<>>, status |-> "running"]

\* Mutant: a write that fails is passed over and the loop goes on.
setAllStep_PassesOver(this, ss, job, fault) ==
    LET out == setOn(this, ss, job.secrets[job.i][1], job.secrets[job.i][2], fault)
    IN  IF IsThrow(out.ret)
        THEN [store |-> out.store, job |-> [job EXCEPT !.i = @ + 1]]
        ELSE [store |-> out.store,
              job |-> [job EXCEPT !.i = @ + 1, !.results = Append(@, out.ret[2])]]

\* results.push(await this.set(key, secrets[key])): one turn of the loop.  A
\* set that fails is not caught: the call is over.
setAllStep(this, ss, job, fault) ==
    LET out == setOn(this, ss, job.secrets[job.i][1], job.secrets[job.i][2], fault)
    IN  IF IsThrow(out.ret)
        THEN [store |-> out.store, job |-> [job EXCEPT !.status = "failed"]]
        ELSE [store |-> out.store,
              job |-> [job EXCEPT !.i = @ + 1, !.results = Append(@, out.ret[2])]]

\* get(key) on such a client: the request is awaited inside get's try block,
\* so a raise and a rejection both end in its catch.
getOn(this, ss, key, fault) ==
    IF fault # "none" THEN Null ELSE get(this, ss, key)

\* getInfo(key) hands back the promise of client.getSecret.
getInfoOn(this, ss, key, fault) ==
    IF fault # "none" THEN Failure ELSE getInfo(this, ss, key)

\* What a begin... request can do: the faults of any request, and "poll".
BeginFaults == Faults \cup {"poll"}

\* delete(key): the begin request is awaited inside the try block, its
\* failure becomes null; the promise of pollUntilDone() is returned from the
\* try block without being awaited, its rejection is the caller's.
deleteOn(this, ss, key, fault) ==
    IF fault \in {"raise", "reject"} THEN Outcome(ss, Null)
    ELSE LET out == delete(this, ss, key)
         IN  IF fault = "poll" /\ out.ret # Null THEN Outcome(out.store, Failure) ELSE out

\* purge(key) is not async and does not await: a raise of the call is caught
\* and becomes null, a rejection of the promise it returns is the caller's.
purgeOn(this, ss, key, fault) ==
    IF fault = "raise" THEN Outcome(ss, Null)
    ELSE IF fault = "reject" THEN Outcome(ss, Failure)
    ELSE purge(this, ss, key)

\* restore(key): as delete.
restoreOn(this, ss, key, fault) ==
    IF fault \in {"raise", "reject"} THEN Outcome(ss, Null)
    ELSE LET out == restore(this, ss, key)
         IN  IF fault = "poll" /\ out.ret # Null THEN Outcome(out.store, Failure) ELSE out

\* getAll() on such a client; faults[i] is what happens to the request made
\* for the i-th listed item.
RECURSIVE getAllLoopOn(_, _, _, _, _)
getAllLoopOn(this, ss, items, acc, faults) ==
    IF items = <<>> THEN acc
    ELSE
        LET tags == items[1].tags
            key == listKey(tags, SEP)
            isShared == tags.group = this.sharedGroup
        IN  getAllLoopOn(this, ss, Tail(items),
                         IF inNamespace(this, tags, isShared)
                         THEN Assign(acc, key, getOn(this, ss, key, faults[1]))
                         ELSE acc,
                         Tail(faults))

getAllOn(this, ss, faults) ==
    deflatten(getAllLoopOn(this, ss, listPropertiesOfSecrets(ss), <<>>, faults))

bulkCallOn(op, this, ss, key, fault) ==
    IF op = "delete" THEN deleteOn(this, ss, key, fault)
    ELSE IF op = "purge" THEN purgeOn(this, ss, key, fault)
    ELSE restoreOn(this, ss, key, fault)

\* The loop of deleteAll, purgeAll and restoreAll on such a client: a call
\* that fails under `await this.delete(key)` (purge, restore) ends the loop
\* and the bulk call with that failure.
RECURSIVE bulkLoopOn(_, _, _, _, _, _)
bulkLoopOn(op, this, ss, items, skipShared, faults) ==
    IF items = <<>> THEN Outcome(ss, Undefined)
    ELSE
        LET tags == items[1].tags
            key == listKey(tags, <<":">>)
            out == IF inNamespace(this, tags, bulkIsShared(this, tags, skipShared))
                   THEN bulkCallOn(op, this, ss, key, faults[1])
                   ELSE Outcome(ss, Undefined)
        IN  IF IsThrow(out.ret) THEN out
            ELSE bulkLoopOn(op, this, out.store, Tail(items), skipShared, Tail(faults))

\* The items a bulk call lists.
bulkItems(op, ss) ==
    IF op = "delete" THEN listPropertiesOfSecrets(ss) ELSE listDeletedSecrets(ss)

\* getAll(), deleteAll(), purgeAll() and restoreAll() as they run: `job.items`
\* is the enumeration the client gave, `job.i` the place of the next item to
\* take from it, `job.outstanding` the places of the items whose per-key
\* request is made and not answered, `job.secrets` what getAll has gathered.
SweepOps == {"getAll", "deleteAll", "purgeAll", "restoreAll"}

sweepCall(op) ==
    IF op = "deleteAll" THEN "delete" ELSE IF op = "purgeAll" THEN "purge" ELSE "restore"

sweepItems(op, ss) ==
    IF op \in {"getAll", "deleteAll"} THEN listPropertiesOfSecrets(ss)
    ELSE listDeletedSecrets(ss)

sweepJob(op, f, ss, skipShared) ==
    [op |-> op, f |-> f, skipShared |-> skipShared, items |-> sweepItems(op, ss),
     i |-> 1, outstanding |-> {}, secrets |-> <<>>]

\* The key built from an item's tags, and whether the item is one of the
\* facade's.
sweepKey(op, tags) == listKey(tags, IF op = "getAll" THEN SEP ELSE <<":">>)

sweepMatches(op, this, tags, skipShared) ==
    inNamespace(this, tags,
                IF op = "getAll" THEN tags.group = this.sharedGroup
                ELSE bulkIsShared(this, tags, skipShared))

\* Mutant: the next item is taken without waiting for the call made for the
\* one before.
sweepMayTake_NoAwait(job) == TRUE

\* `await this.delete(key)` (get, purge, restore) stands inside the for-await
\* loop: the loop asks for the next item when the call has been answered.
sweepMayTake(job) == job.outstanding = {}

\* The next item is taken; for one of the facade's the per-key call is made.
sweepTake(this, job) ==
    [job EXCEPT !.i = @ + 1,
                !.outstanding =
                    IF sweepMatches(job.op, this, job.items[job.i].tags, job.skipShared)
                    THEN @ \cup {job.i} ELSE @]

\* The call made for the k-th item is answered.
sweepAnswer(this, ss, job, k) ==
    LET key == sweepKey(job.op, job.items[k].tags)
    IN  IF job.op = "getAll"
        THEN [store |-> ss,
              job |-> [job EXCEPT !.outstanding = @ \ {k},
                                  !.secrets = Assign(@, key, get(this, ss, key))]]
        ELSE [store |-> bulkCall(sweepCall(job.op), this, ss, key).store,
              job |-> [job EXCEPT !.outstanding = @ \ {k}]]

\* A promise: still in flight, or settled.
InFlight == <<"inflight", Undefined>>
Fulfilled(v) == <<"fulfilled", v>>

\* getFor(secrets, override) as it runs: `job.secrets` is the flattened
\* input, `job.promises` the promises the first loop has made so far (one per
\* key, in order), `job.j` the position of the second loop; `job.failed`
\* keeps the places of the fetches that failed.
getForJob(f, input, override) ==
    [op |-> "getFor", f |-> f, arg |-> input, override |-> override,
     secrets |-> flatten(input), promises |-> <<>>, j |-> 1, failed |-> {}]

\* One turn of the first loop: the get is called, and with it the request is
\* sent, or the default is wrapped in a resolved promise.
getForIssue(job) ==
    LET secret == job.secrets[Len(job.promises) + 1][2]
    IN  [job EXCEPT !.promises =
            Append(@, IF needsFetch(secret, job.override) THEN InFlight
                      ELSE Fulfilled(secret))]

\* The get called for the k-th key comes to its end.
getForSettle(this, ss, job, k, fault) ==
    [job EXCEPT !.promises[k] = Fulfilled(getOn(this, ss, job.secrets[k][1], fault)),
                !.failed = IF fault # "none" THEN @ \cup {k} ELSE @]

\* Mutant: a promise is awaited as soon as it is made.
getForAwaitable_AsIssued(job) == job.j <= Len(job.promises)

\* The second loop starts when the first one is over.
getForAwaitable(job) == Len(job.promises) = Len(job.secrets)

\* Mutant: the value awaited is stored as it is, null too.
getForAwait_NullWins(job) ==
    LET key == job.secrets[job.j][1]
        promise == job.promises[job.j]
    IN  [job EXCEPT !.j = @ + 1, !.secrets = Assign(@, key, promise[2])]

\* One turn of the second loop: secrets[key] = (await promises[key]) ?? secrets[key];
\* a promise that was rejected is passed over.
getForAwait(job) ==
    LET key == job.secrets[job.j][1]
        promise == job.promises[job.j]
    IN  IF promise[1] = "rejected" THEN [job EXCEPT !.j = @ + 1]
        ELSE [job EXCEPT !.j = @ + 1,
                         !.secrets = Assign(@, key, Coalesce(promise[2], job.secrets[job.j][2]))]

(***************************************************************************)
(* Calls                                                                   *)
(***************************************************************************)
MaxSecrets == 2
MaxScript == 4

NoCall == [op |-> "none", f |-> 0, key |-> <<>>, arg |-> Undefined,
           override |-> FALSE, ret |-> Undefined, fetched |-> <<>>]
NoScript == [f |-> 0, key |-> <<>>, calls |-> <<>>]
\* The value of `pending` while no setAll or getFor call is under way.
NoPending == [op |-> "none", status |-> "none"]
\* The value of `script` in a run that keeps no script.
Unscripted == [f |-> -1, key |-> <<>>, calls |-> <<>>]

Call(op, f, key, arg, ret) ==
    [op |-> op, f |-> f, key |-> key, arg |-> arg,
     override |-> FALSE, ret |-> ret, fetched |-> <<>>]

\* The script: a set and the mutating calls made after it, in a row, on the
\* same key of the same facade (MaxScript calls at most).  A set starts a new
\* script; any other call that does not continue the script ends it.
Extend(sc, f, key, call) ==
    IF sc = Unscripted THEN sc
    ELSE IF call[1] = "set" THEN [f |-> f, key |-> key, calls |-> <<call>>]
    ELSE IF sc.f = f /\ sc.key = key /\ Len(sc.calls) < MaxScript
    THEN [sc EXCEPT !.calls = Append(sc.calls, call)]
    ELSE NoScript

Mutate(op, f, key, arg, out) ==
    /\ secrets' = out.store
    /\ last' = Call(op, f, key, arg, out.ret)
    /\ script' = Extend(script, f, key, <<op, arg, out.ret>>)
    /\ UNCHANGED <<facades, tree, flat, rebuilt, pending>>

Read(call) ==
    /\ last' = call
    /\ UNCHANGED <<facades, secrets, script, tree, flat, rebuilt, pending>>

Set(f, key, value) ==
    /\ \/ HasKey(secrets, secretName(facades[f], key, setIsShared(key)))
       \/ Len(secrets) < MaxSecrets
    /\ Mutate("set", f, key, value, set(facades[f], secrets, key, value))

Get(f, key) == Read(Call("get", f, key, Undefined, get(facades[f], secrets, key)))

\* get(key, serialized) with the hint written out; get does not read it.
GetHinted(f, key, serialized) ==
    Read(Call("get", f, key, Bool(serialized), get(facades[f], secrets, key)))

\* client.setSecret(name, value, { tags }) called by another writer of the
\* same vault, not through a facade.
ClientSetSecret(name, value, tags) ==
    /\ HasKey(secrets, name) \/ Len(secrets) < MaxSecrets
    /\ secrets' = setSecret(secrets, name, value, tags).store
    /\ last' = [NoCall EXCEPT !.op = "setSecret", !.key = name, !.arg = value]
    /\ UNCHANGED <<facades, script, tree, flat, rebuilt, pending>>

GetInfo(f, key) ==
    Read(Call("getInfo", f, key, Undefined, getInfo(facades[f], secrets, key)))

Delete(f, key) == Mutate("delete", f, key, Undefined, delete(facades[f], secrets, key))

Purge(f, key) == Mutate("purge", f, key, Undefined, purge(facades[f], secrets, key))

Restore(f, key) == Mutate("restore", f, key, Undefined, restore(facades[f], secrets, key))

GetFor(f, input, override) ==
    Read([op |-> "getFor", f |-> f, key |-> <<>>, arg |-> Obj(input),
          override |-> override,
          ret |-> getFor(facades[f], secrets, input, override),
          fetched |-> fetchedKeys(flatten(input), override)])

GetAll(f) == Read(Call("getAll", f, <<>>, Undefined, getAll(facades[f], secrets)))

\* setAll(input); `tree` keeps the structure that was handed over.
SetAll(f, input) ==
    LET out == setAll(facades[f], secrets, input)
    IN  /\ Len(out.store) <= MaxSecrets
        /\ secrets' = out.store
        /\ last' = Call("setAll", f, <<>>, Obj(input), out.ret)
        /\ tree' = input
        /\ UNCHANGED <<facades, script, flat, rebuilt, pending>>

\* setAll(input) is called: the input is flattened, nothing is written yet.
\* `base` keeps the store the call found.
SetAllBegin(f, input) ==
    /\ pending.op = "none" \/ pending.status # "running"
    /\ pending' = [job |-> setAllJob(f, input), base |-> secrets,
                   op |-> "setAll", status |-> "running"]
    /\ tree' = input
    /\ UNCHANGED <<facades, secrets, last, script, flat, rebuilt>>

\* The next write of the running setAll is made and answered.
SetAllWrite(fault) ==
    /\ pending.op = "setAll" /\ pending.status = "running"
    /\ pending.job.i <= Len(pending.job.secrets)
    /\ LET step == setAllStep(facades[pending.job.f], secrets, pending.job, fault)
       IN  /\ secrets' = step.store
           /\ pending' = [pending EXCEPT !.job = step.job, !.status = step.job.status]
           /\ last' = IF step.job.status = "failed"
                      THEN Call("setAll", pending.job.f, <<>>, Obj(pending.job.arg), Failure)
                      ELSE last
    /\ UNCHANGED <<facades, script, tree, flat, rebuilt>>

\* The loop is over: setAll returns the records.
SetAllReturn ==
    /\ pending.op = "setAll" /\ pending.status = "running"
    /\ pending.job.i > Len(pending.job.secrets)
    /\ pending' = [pending EXCEPT !.status = "done"]
    /\ last' = Call("setAll", pending.job.f, <<>>, Obj(pending.job.arg),
                    <<"secrets", pending.job.results>>)
    /\ UNCHANGED <<facades, secrets, script, tree, flat, rebuilt>>

\* A call on a client whose requests can fail: `faults` holds what happened
\* to each request the call made.
CallOn(op, f, key, arg, ret, faults) ==
    [op |-> op, f |-> f, key |-> key, arg |-> arg, override |-> FALSE,
     ret |-> ret, fetched |-> <<>>, faults |-> faults]

MutateOn(op, f, key, arg, out, faults) ==
    /\ secrets' = out.store
    /\ last' = CallOn(op, f, key, arg, out.ret, faults)
    /\ UNCHANGED <<facades, script, tree, flat, rebuilt, pending>>

SetOn(f, key, value, fault) ==
    /\ \/ HasKey(secrets, secretName(facades[f], key, setIsShared(key)))
       \/ Len(secrets) < MaxSecrets
    /\ MutateOn("set", f, key, value, setOn(facades[f], secrets, key, value, fault), <<fault>>)

GetOn(f, key, fault) ==
    Read(CallOn("get", f, key, Undefined, getOn(facades[f], secrets, key, fault), <<fault>>))

GetInfoOn(f, key, fault) ==
    Read(CallOn("getInfo", f, key, Undefined,
                getInfoOn(facades[f], secrets, key, fault), <<fault>>))

DeleteOn(f, key, fault) ==
    MutateOn("delete", f, key, Undefined, deleteOn(facades[f], secrets, key, fault), <<fault>>)

PurgeOn(f, key, fault) ==
    MutateOn("purge", f, key, Undefined, purgeOn(facades[f], secrets, key, fault), <<fault>>)

RestoreOn(f, key, fault) ==
    MutateOn("restore", f, key, Undefined, restoreOn(facades[f], secrets, key, fault), <<fault>>)

GetAllOn(f, faults) ==
    Read(CallOn("getAll", f, <<>>, Undefined, getAllOn(facades[f], secrets, faults), faults))

\* deleteAll(), purgeAll() or restoreAll(), with skipShared left at its
\* default (true); `op` is the call made for each listed key.
BulkOn(op, f, faults) ==
    MutateOn(op \o "All", f, <<>>, Bool(TRUE),
             bulkLoopOn(op, facades[f], secrets, bulkItems(op, secrets), TRUE, faults),
             faults)

\* getAll(), deleteAll(skipShared), purgeAll(skipShared) or
\* restoreAll(skipShared) is called: the client enumerates its secrets.
SweepBegin(op, f, skipShared) ==
    /\ pending.status # "running"
    /\ pending' = [job |-> sweepJob(op, f, secrets, skipShared), base |-> secrets,
                   op |-> op, status |-> "running"]
    /\ UNCHANGED <<facades, secrets, last, script, tree, flat, rebuilt>>

SweepTake ==
    /\ pending.op \in SweepOps /\ pending.status = "running"
    /\ pending.job.i <= Len(pending.job.items)
    /\ sweepMayTake(pending.job)
    /\ pending' = [pending EXCEPT !.job = sweepTake(facades[pending.job.f], pending.job)]
    /\ UNCHANGED <<facades, secrets, last, script, tree, flat, rebuilt>>

SweepAnswer(k) ==
    /\ pending.op \in SweepOps /\ pending.status = "running"
    /\ k \in pending.job.outstanding
    /\ LET step == sweepAnswer(facades[pending.job.f], secrets, pending.job, k)
       IN  /\ secrets' = step.store
           /\ pending' = [pending EXCEPT !.job = step.job]
    /\ UNCHANGED <<facades, last, script, tree, flat, rebuilt>>

\* The enumeration is used up and every call is answered: the bulk call
\* returns (getAll returns deflatten(secrets)).
SweepReturn ==
    /\ pending.op \in SweepOps /\ pending.status = "running"
    /\ pending.job.i > Len(pending.job.items)
    /\ pending.job.outstanding = {}
    /\ pending' = [pending EXCEPT !.status = "done"]
    /\ last' = Call(pending.op, pending.job.f, <<>>, Bool(pending.job.skipShared),
                    IF pending.op = "getAll" THEN deflatten(pending.job.secrets)
                    ELSE Undefined)
    /\ UNCHANGED <<facades, secrets, script, tree, flat, rebuilt>>

\* getFor(input, override) is called: the input is flattened.
GetForBegin(f, input, override) ==
    /\ pending.status # "running"
    /\ pending' = [job |-> getForJob(f, input, override), base |-> secrets,
                   op |-> "getFor", status |-> "running"]
    /\ UNCHANGED <<facades, secrets, last, script, tree, flat, rebuilt>>

GetForStep(job) ==
    /\ pending' = [pending EXCEPT !.job = job]
    /\ UNCHANGED <<facades, secrets, last, script, tree, flat, rebuilt>>

GetForIssue ==
    /\ pending.op = "getFor" /\ pending.status = "running"
    /\ Len(pending.job.promises) < Len(pending.job.secrets)
    /\ GetForStep(getForIssue(pending.job))

GetForSettle(k, fault) ==
    /\ pending.op = "getFor" /\ pending.status = "running"
    /\ k \in 1..Len(pending.job.promises)
    /\ pending.job.promises[k] = InFlight
    /\ GetForStep(getForSettle(facades[pending.job.f], secrets, pending.job, k, fault))

GetForAwait ==
    /\ pending.op = "getFor" /\ pending.status = "running"
    /\ getForAwaitable(pending.job)
    /\ pending.job.j <= Len(pending.job.secrets)
    /\ pending.job.promises[pending.job.j] # InFlight
    /\ GetForStep(getForAwait(pending.job))

\* The second loop is over: getFor returns deflatten(secrets).
GetForReturn ==
    /\ pending.op = "getFor" /\ pending.status = "running"
    /\ pending.job.j > Len(pending.job.secrets)
    /\ pending' = [pending EXCEPT !.status = "done"]
    /\ last' = [op |-> "getFor", f |-> pending.job.f, key |-> <<>>,
                arg |-> Obj(pending.job.arg), override |-> pending.job.override,
                ret |-> deflatten(pending.job.secrets),
                fetched |-> fetchedKeys(flatten(pending.job.arg), pending.job.override)]
    /\ UNCHANGED <<facades, secrets, script, tree, flat, rebuilt>>

DeleteAll(f, skipShared) ==
    Mutate("deleteAll", f, <<>>, Bool(skipShared), deleteAll(facades[f], secrets, skipShared))

PurgeAll(f, skipShared) ==
    Mutate("purgeAll", f, <<>>, Bool(skipShared), purgeAll(facades[f], secrets, skipShared))

RestoreAll(f, skipShared) ==
    Mutate("restoreAll", f, <<>>, Bool(skipShared), restoreAll(facades[f], secrets, skipShared))

(***************************************************************************)
(* Namespaces, keys and values the specifications draw from                *)
(***************************************************************************)
Config(project, group, env) ==
    [project |-> Str(project), group |-> group, env |-> env, sharedGroup |-> Undefined]

NsPGE == Config(<<"p">>, Str(<<"g">>), Str(<<"e">>))
NsPHE == Config(<<"p">>, Str(<<"h">>), Str(<<"e">>))
NsPE == Config(<<"p">>, Undefined, Str(<<"e">>))
NsQG == Config(<<"Q", "_", "r">>, Str(<<"g">>), Undefined)

KeyK == <<"k">>
KeySharedK == <<"$", "k">>
KeyAK == <<"a", ":", "k">>
KeyASharedK == <<"a", ":", "$", "k">>

ValV == Str(<<"v">>)
ValW == Str(<<"w">>)

Idle ==
    /\ secrets = <<>>
    /\ last = NoCall
    /\ tree = <<>>
    /\ flat = <<>>
    /\ rebuilt = Undefined
    /\ pending = NoPending

(***************************************************************************)
(* SpecShare: several facades on one client, set and read key by key       *)
(***************************************************************************)
ShareFacades == {<<AzureKeyVault(NsPGE), AzureKeyVault(NsPHE)>>,
                 <<AzureKeyVault(NsPE), AzureKeyVault(NsPGE)>>,
                 <<AzureKeyVault(NsQG)>>}
ShareKeys == {KeyK, KeySharedK, KeyAK, KeyASharedK}
ShareValues == {ValV, ValW}

InitShare == facades \in ShareFacades /\ script = Unscripted /\ Idle

ShareSet ==
    \E f \in DOMAIN facades, key \in ShareKeys, value \in ShareValues : Set(f, key, value)
ShareGet == \E f \in DOMAIN facades, key \in ShareKeys : Get(f, key)

NextShare == ShareSet \/ ShareGet

SpecShare == InitShare /\ [][NextShare]_vars

\* The keys that carry the '$' sigil on their final segment.
SigilKeys == {KeySharedK, KeyASharedK}

\* Two facades of the same project and environment with different groups.
SameProjectEnv(f, g) ==
    /\ facades[f].project = facades[g].project
    /\ facades[f].env = facades[g].env
OtherGroup(f, g) == SameProjectEnv(f, g) /\ facades[f].group # facades[g].group

\* C2: right after set(k, v) with a string v, on any of the namespaces and for
\* a flat or ':'-nested key with or without the '$' sigil, get(k) on the same
\* facade returns v: the value of the last set, whatever was written before.
C2_GetReturnsLastSet ==
    last.op = "set" => get(facades[last.f], secrets, last.key) = last.arg

\* C2 witness: the key was written, then another key, then the first key again
\* with another value (it still holds the first place of the dictionary).
C2_Witness ==
    /\ last.op = "set" /\ last.arg = ValW /\ last.key = KeyASharedK
    /\ Len(secrets) = 2
    /\ secrets[1][1] = secretName(facades[last.f], last.key, TRUE)
    /\ get(facades[last.f], secrets, last.key) = ValW

\* The string project-group-env-key, a missing group or env left out.
PlainId(this, key) ==
    this.project[2] \o (IF this.group[1] = "undefined" THEN <<>> ELSE <<"-">> \o this.group[2])
                    \o (IF this.env[1] = "undefined" THEN <<>> ELSE <<"-">> \o this.env[2])
                    \o <<"-">> \o key

\* C4 as stated: the record set returns for a non-shared key is named
\* project-group-env-key (project-env-key without group), as written.
C4_Original ==
    (last.op = "set" /\ last.key \notin SigilKeys)
        => last.ret[2].name = PlainId(facades[last.f], last.key)

\* C4 amended: the name is project-group-env-key (project-env-key without
\* group) in its stored form: runs of '_' and ' ' written '-', ':' written
\* '--', '$' dropped, upper case lowered; so 'p-g-e-k' and 'p-e-k' as written.
C4_NormalizedId ==
    (last.op = "set" /\ last.key \notin SigilKeys)
        => /\ last.ret[2].name =
                ToLowerCase(RemoveDollars(ReplaceColons(
                    ReplaceBlanks(PlainId(facades[last.f], last.key), FALSE))))
           /\ (facades[last.f] = AzureKeyVault(NsPGE) /\ last.key = KeyK)
                => last.ret[2].name = <<"p", "-", "g", "-", "e", "-", "k">>
           /\ (facades[last.f] = AzureKeyVault(NsPE) /\ last.key = KeyK)
                => last.ret[2].name = <<"p", "-", "e", "-", "k">>

\* C4 witness: a nested key set in a namespace whose project is not in stored
\* form and that has no env.
C4_Witness ==
    /\ last.op = "set" /\ last.key = KeyAK
    /\ facades[last.f] = AzureKeyVault(NsQG)
    /\ last.ret[2].name = <<"q", "-", "r", "-", "g", "-", "a", "-", "-", "k">>

\* C5: right after set('$k', v) (or a nested shared key) through one facade,
\* get of the same key through every facade of the same project and env whose
\* group is another one returns v.
C5_SharedVisibleAcrossGroups ==
    (last.op = "set" /\ last.key \in SigilKeys)
        => \A g \in DOMAIN facades :
              OtherGroup(last.f, g) => get(facades[g], secrets, last.key) = last.arg

C5_Witness ==
    /\ last.op = "set" /\ last.key = KeySharedK /\ last.f = 1
    /\ Len(facades) = 2 /\ OtherGroup(1, 2)
    /\ get(facades[2], secrets, KeySharedK) = last.arg

LifeFacades == {<<AzureKeyVault(NsPGE)>>}
LifeKeys == {KeyK, KeyASharedK}
LifeValues == {ValV, ValW}

InitLife == facades \in LifeFacades /\ script = NoScript /\ Idle

LifeSet ==
    \E f \in DOMAIN facades, key \in LifeKeys, value \in LifeValues : Set(f, key, value)
LifeGet == \E f \in DOMAIN facades, key \in LifeKeys : Get(f, key)
LifeGetInfo == \E f \in DOMAIN facades, key \in LifeKeys : GetInfo(f, key)
LifeDelete == \E f \in DOMAIN facades, key \in LifeKeys : Delete(f, key)
LifePurge == \E f \in DOMAIN facades, key \in LifeKeys : Purge(f, key)
LifeRestore == \E f \in DOMAIN facades, key \in LifeKeys : Restore(f, key)

NextLife ==
    LifeSet \/ LifeGet \/ LifeGetInfo \/ LifeDelete \/ LifePurge \/ LifeRestore

SpecLife == InitLife /\ [][NextLife]_vars

\* The script is exactly the calls named by `ops`, the oldest first.
ScriptIs(ops) ==
    /\ Len(script.calls) = Len(ops)
    /\ \A i \in 1..Len(ops) : script.calls[i][1] = ops[i]

\* The value the set of the script was given.
ScriptValue == script.calls[1][2]

\* What get(k) returns now on the facade and key of the script.
ScriptGet == get(facades[script.f], secrets, script.key)

\* C9: after set(k, v) and then delete(k) on one facade, get(k) returns null.
C9_DeletedIsNull == ScriptIs(<<"set", "delete">>) => ScriptGet = Null

\* C9 witness: get(k) was called after set(k, v) and delete(k), and gave null.
C9_Witness ==
    /\ ScriptIs(<<"set", "delete">>)
    /\ last.op = "get" /\ last.f = script.f /\ last.key = script.key
    /\ last.ret = Null

\* C10: after set(k, v), delete(k) and restore(k) on one facade, get(k)
\* returns v.
C10_RestoredIsBack ==
    ScriptIs(<<"set", "delete", "restore">>) => ScriptGet = ScriptValue

\* C10 witness: get(k) was called after the three calls and gave v.
C10_Witness ==
    /\ ScriptIs(<<"set", "delete", "restore">>)
    /\ last.op = "get" /\ last.f = script.f /\ last.key = script.key
    /\ last.ret = ValW /\ ScriptValue = ValW

\* The script is set, delete, purge and then restores only (none, or more).
PurgedThenRestores ==
    /\ Len(script.calls) >= 3
    /\ \A i \in 1..Len(script.calls) :
          script.calls[i][1] = (IF i > 3 THEN "restore" ELSE <<"set", "delete", "purge">>[i])

\* C11: after set(k, v), delete(k) and purge(k) on one facade, and after any
\* number of restore(k) calls that follow, get(k) returns null.
C11_PurgedStaysNull == PurgedThenRestores => ScriptGet = Null

\* C11 witness: get(k) was called after set, delete, purge and a restore, and
\* gave null.
C11_Witness ==
    /\ ScriptIs(<<"set", "delete", "purge", "restore">>)
    /\ last.op = "get" /\ last.f = script.f /\ last.key = script.key
    /\ last.ret = Null

\* The storage ids of the keys of SpecLife in its namespace, written out.
LifeId(key) ==
    IF key = KeyK THEN <<"p", "-", "g", "-", "e", "-", "k">>
    ELSE <<"p", "-", "e", "-", "a", "-", "-", "k">>

\* The key has no active secret: it was never set, or is deleted or purged.
Absent(key) == ~HasKey(secrets, LifeId(key))

\* The state of a key's secret in a store: "none" stands for absent and for
\* purged (the store keeps nothing of either), "both" for an active record
\* next to a deleted one.
StateIn(ss, key) ==
    LET active == HasKey(ss, LifeId(key))
        deleted == HasKey(ss, DELETED_PREFIX \o LifeId(key))
    IN  IF active /\ deleted THEN "both"
        ELSE IF active THEN "active"
        ELSE IF deleted THEN "deleted"
        ELSE "none"

\* The changes of state of the life cycle, with the call that makes each.
LifeCycle ==
    { <<"none", "set", "active">>, <<"active", "delete", "deleted">>,
      <<"deleted", "purge", "none">>, <<"deleted", "restore", "active">> }

\* C26: the secret of a key is absent, active, deleted or purged, never
\* active and deleted at once, and a call changes its state only along
\* absent->active (set), active->deleted (delete), deleted->purged (purge)
\* and deleted->active (restore).
C26_LifeCycle ==
    [][\A key \in LifeKeys :
          /\ StateIn(secrets', key) # "both"
          /\ StateIn(secrets', key) # StateIn(secrets, key) =>
                 /\ last'.key = key
                 /\ <<StateIn(secrets, key), last'.op, StateIn(secrets', key)>>
                        \in LifeCycle]_vars

\* C14: get(k) for a key with no active secret (never set, deleted or
\* purged) returns null, and raises nothing.
C14_AbsentIsNull == (last.op = "get" /\ Absent(last.key)) => last.ret = Null

\* C14 witness: get(k) gave null while k was deleted and the other key had
\* been purged.
C14_Witness ==
    /\ last.op = "get" /\ last.key = KeyK /\ last.ret = Null
    /\ HasKey(secrets, DELETED_PREFIX \o LifeId(KeyK))
    /\ ScriptIs(<<"set", "delete", "purge">>) /\ script.key = KeyASharedK
    /\ Len(secrets) = 1

\* C16: delete(k) on a key with no active secret (absent or already deleted)
\* and restore(k) on a key that is active or has no deleted secret (never
\* created, or purged) return the soft failure (null), raise nothing and leave
\* every record of the store as it was.
C16_SoftFailures ==
    [][/\ (last'.op = "delete" /\ Absent(last'.key))
            => last'.ret = Null /\ secrets' = secrets
       /\ (last'.op = "restore"
             /\ (~Absent(last'.key)
                   \/ ~HasKey(secrets, DELETED_PREFIX \o LifeId(last'.key))))
            => last'.ret = Null /\ secrets' = secrets]_vars

\* C16 witness: restore of the active secret gave null, and after its delete
\* a second delete gave null.
C16_Witness ==
    /\ ScriptIs(<<"set", "restore", "delete", "delete">>)
    /\ script.calls[2][3] = Null
    /\ script.calls[3][3] # Null
    /\ script.calls[4][3] = Null
    /\ last.op = "delete" /\ last.ret = Null
    /\ Absent(script.key)

TypesFacades == {<<AzureKeyVault(NsPGE)>>}
TypesKeys == {KeyK, KeyASharedK}
TypesStrings == {ValV, Str(<<>>), Str(<<"1", "8">>), Str(<<"[", "]">>)}
TypesOthers ==
    {Num(18), Num(0), Bool(TRUE), Bool(FALSE), Null,
     Arr(<<Str(<<"1">>), Num(2)>>), Arr(<<>>), Obj(<<>>),
     Obj(<< <<<<"p">>, Str(<<"x">>)>>, <<<<"n">>, Num(18)>>,
            <<<<"b">>, Bool(TRUE)>>, <<<<"z">>, Null>> >>),
     Obj(<< <<<<"o">>, Obj(<< <<<<"r">>, Arr(<<Num(1)>>)>> >>)>> >>)}

InitTypes == facades \in TypesFacades /\ script = Unscripted /\ Idle

TypesSet ==
    \E f \in DOMAIN facades, key \in TypesKeys, value \in TypesStrings \cup TypesOthers :
        Set(f, key, value)
TypesGet == \E f \in DOMAIN facades, key \in TypesKeys : Get(f, key)

TypesGetInfo == \E f \in DOMAIN facades, key \in TypesKeys : GetInfo(f, key)

NextTypes == TypesSet \/ TypesGet \/ TypesGetInfo

SpecTypes == InitTypes /\ [][NextTypes]_vars

\* C3: set(k, v) with a string v stores v itself, tagged serialized "0"; with
\* a number, boolean, array or object v (or null) it stores a string, tagged
\* serialized "1", and get(k) then returns a value deep-equal to v.
C3_TypeRoundTrip ==
    last.op = "set" =>
        IF IsString(last.arg)
        THEN /\ last.ret[2].value = last.arg
             /\ last.ret[2].tags.serialized = Str(<<"0">>)
        ELSE /\ IsString(last.ret[2].value)
             /\ last.ret[2].tags.serialized = Str(<<"1">>)
             /\ DeepEq(get(facades[last.f], secrets, last.key), last.arg)

\* C3 witness: get was called on a key holding a serialized object and gave
\* the object back.
C3_Witness ==
    /\ last.op = "get" /\ last.key = KeyK
    /\ IsObject(last.ret) /\ Len(last.ret[2]) = 4
    /\ getInfo(facades[last.f], secrets, KeyK)[2].tags.serialized = Str(<<"1">>)
    /\ IsString(getInfo(facades[last.f], secrets, KeyK)[2].value)

\* C15: getInfo(k) for a key with no secret fails with the not-found error
\* instead of giving null; for a key with a secret it gives the stored record
\* as it is: the string that was stored, not decoded, and the metadata.
C15_GetInfoIsRaw ==
    last.op = "getInfo" =>
        IF ~HasKey(secrets, LifeId(last.key)) THEN last.ret = Error
        ELSE /\ last.ret = Secret(Lookup(secrets, LifeId(last.key)))
             /\ IsString(last.ret[2].value)
             /\ last.ret[2].tags.serialized = Str(<<"1">>)
                   => DeepEq(JSONparse(last.ret[2].value[2]),
                             get(facades[last.f], secrets, last.key))
             /\ last.ret[2].tags.project = Str(<<"p">>)
             /\ last.ret[2].tags.env = Str(<<"e">>)

\* C15 witness: getInfo gave the text '[]' tagged serialized "1" for a key
\* set to an empty array.
C15_Witness ==
    /\ last.op = "getInfo" /\ last.key = KeyASharedK
    /\ last.ret[1] = "secret"
    /\ last.ret[2].value = Str(<<"[", "]">>)
    /\ last.ret[2].tags.serialized = Str(<<"1">>)

(***************************************************************************)
(* SpecFor: one facade, secrets set and then read with getFor              *)
(***************************************************************************)
KeyA == <<"a">>
KeyB == <<"b">>
KeyC == <<"c">>
KeyGSharedS == <<"g", ":", "$", "s">>

ValA == Str(<<"A">>)
Val12 == Arr(<<Str(<<"1">>), Str(<<"2">>)>>)

ForFacades == {<<AzureKeyVault(NsPGE)>>}
ForKeys == {KeyA, KeyC, KeyGSharedS}
ForValues == {ValA, Val12, Null}

\* {a: null, b: 'x', c: []}
ExampleDefaults ==
    << <<KeyA, Null>>, <<KeyB, Str(<<"x">>)>>, <<KeyC, Arr(<<>>)>> >>
\* {a: 'A', b: 'x', c: ['1', '2']}
ExampleResult ==
    Obj(<< <<KeyA, ValA>>, <<KeyB, Str(<<"x">>)>>, <<KeyC, Val12>> >>)

ForDefaults ==
    {Null, Undefined, Str(<<>>), Num(0), Bool(FALSE), Arr(<<>>),
     Str(<<"x">>), Bool(TRUE), Arr(<<Str(<<"d">>)>>)}

\* The example, {a: d} for every default d, and {g: {$s: null, t: 'x'}}.
ForTrees ==
    {ExampleDefaults} \cup {<< <<KeyA, d>> >> : d \in ForDefaults}
        \cup {<< <<<<"g">>, Obj(<< <<<<"$", "s">>, Null>>,
                                    <<<<"t">>, Str(<<"x">>)>> >>)>> >>}

InitFor == facades \in ForFacades /\ script = Unscripted /\ Idle

ForSet ==
    \E f \in DOMAIN facades, key \in ForKeys, value \in ForValues : Set(f, key, value)
ForGetFor ==
    \E f \in DOMAIN facades, input \in ForTrees, override \in BOOLEAN :
        GetFor(f, input, override)

NextFor == ForSet \/ ForGetFor

SpecFor == InitFor /\ [][NextFor]_vars

\* The value found in a nested structure by going down the given keys.
RECURSIVE AtPath(_, _)
AtPath(node, path) ==
    IF path = <<>> THEN node
    ELSE IF ~IsObject(node) THEN Undefined
    ELSE AtPath(Lookup(node[2], path[1]), Tail(path))

\* The storage id getFor reads for a flat key.
ForId(fk) == secretName(facades[last.f], fk, keyIsShared(fk))

\* The value that was set under a storage id: the one whose stored form and
\* serialized tag the record holds.
Remote(id) ==
    LET rec == Lookup(secrets, id)
    IN  CHOOSE v \in ForValues :
            /\ encode(v) = rec.value
            /\ rec.tags.serialized = (IF IsString(v) THEN Str(<<"0">>) ELSE Str(<<"1">>))

\* A default getFor keeps without asking: truthy and no array, or an array
\* that is not empty.
KeepsDefault(d) == IF IsArray(d) THEN Len(d[2]) > 0 ELSE Truthy(d)

\* The example's remote state: a = 'A', b unset, c = ['1', '2'].
ExampleRemote ==
    /\ HasKey(secrets, ForId(KeyA)) /\ Remote(ForId(KeyA)) = ValA
    /\ ~HasKey(secrets, ForId(KeyB))
    /\ HasKey(secrets, ForId(KeyC)) /\ Remote(ForId(KeyC)) = Val12

\* What the result holds for a flat key that was fetched: the remote value
\* when the secret exists (and, with `nullIsAbsent`, is not null), the default
\* otherwise.
Resolved(fk, d, nullIsAbsent) ==
    IF HasKey(secrets, ForId(fk)) /\ ~(nullIsAbsent /\ Remote(ForId(fk)) = Null)
    THEN Remote(ForId(fk)) ELSE d

InFetched(fk) == \E j \in 1..Len(last.fetched) : last.fetched[j] = fk

\* getFor without override, key by key.
KeepsOrResolves(nullIsAbsent) ==
    LET defaults == flatten(last.arg[2])
    IN  /\ ~IsThrow(last.ret)
        /\ \A i \in 1..Len(defaults) :
              LET fk == defaults[i][1]
                  d == defaults[i][2]
                  res == AtPath(last.ret, SplitDashes(fk))
              IN  IF KeepsDefault(d) THEN res = d /\ ~InFetched(fk)
                  ELSE InFetched(fk) /\ res = Resolved(fk, d, nullIsAbsent)

\* C7 as stated: without override a truthy default (or a non-empty array) is
\* kept and not fetched; a falsy default or an empty array gives way to the
\* remote value whenever the secret exists.
C7_Original ==
    (last.op = "getFor" /\ ~last.override) => KeepsOrResolves(FALSE)

\* C7 amended: ... gives way to the remote value when the secret exists and
\* its value is not null, and is kept otherwise; defaults {a: null, b: 'x',
\* c: []} with remote a = 'A', b unset, c = ['1', '2'] give {a: 'A', b: 'x',
\* c: ['1', '2']}.
C7_KeepsTruthyDefaults ==
    (last.op = "getFor" /\ ~last.override) =>
        /\ KeepsOrResolves(TRUE)
        /\ (last.arg[2] = ExampleDefaults /\ ExampleRemote)
              => DeepEq(last.ret, ExampleResult)

\* C7 witness: the example has been run.
C7_Witness ==
    /\ last.op = "getFor" /\ ~last.override
    /\ last.arg[2] = ExampleDefaults /\ ExampleRemote
    /\ last.ret = ExampleResult
    /\ last.fetched = <<KeyA, KeyC>>

\* getFor key by key, for the keys whose secret exists: the result holds the
\* remote value (`always`), or it holds it only where the default is one that
\* getFor does not keep and the remote value is not null.
RemoteReplaces(always) ==
    LET defaults == flatten(last.arg[2])
    IN  /\ ~IsThrow(last.ret)
        /\ \A i \in 1..Len(defaults) :
              LET fk == defaults[i][1]
                  d == defaults[i][2]
                  res == AtPath(last.ret, SplitDashes(fk))
              IN  HasKey(secrets, ForId(fk)) =>
                      res = IF always \/ (~KeepsDefault(d) /\ Remote(ForId(fk)) # Null)
                            THEN Remote(ForId(fk)) ELSE d

RemoteWins(nullIsAbsent) ==
    LET defaults == flatten(last.arg[2])
    IN  /\ ~IsThrow(last.ret)
        /\ \A i \in 1..Len(defaults) :
              LET fk == defaults[i][1]
                  res == AtPath(last.ret, SplitDashes(fk))
              IN  /\ InFetched(fk)
                  /\ HasKey(secrets, ForId(fk))
                        => res = Resolved(fk, defaults[i][2], nullIsAbsent)

\* C8 as stated: with override every flat key is fetched and the result holds
\* the remote value of every key whose secret exists.
C8_Original == (last.op = "getFor" /\ last.override) => RemoteWins(FALSE)

\* C8 amended: ... the remote value of every key whose secret exists with a
\* value that is not null; a secret holding null leaves the default.
C8_RemoteWinsUnlessNull == (last.op = "getFor" /\ last.override) => RemoteWins(TRUE)

\* C8 witness: a truthy default gave way to the remote value.
C8_Witness ==
    /\ last.op = "getFor" /\ last.override
    /\ last.arg[2] = << <<KeyA, Str(<<"x">>)>> >>
    /\ HasKey(secrets, ForId(KeyA)) /\ Remote(ForId(KeyA)) = Val12
    /\ last.ret = Obj(<< <<KeyA, Val12>> >>)

(***************************************************************************)
(* SpecCodec: a nested structure is flattened, the flat mapping deflattened*)
(***************************************************************************)
MaxTreeKeys == 2

CodecKeys == {<<"a">>, <<"b">>, <<"a", "-">>, <<"a", "-", "-", "b">>}
CodecValues ==
    {Num(1), Null, Str(<<"x">>), Arr(<<Num(1)>>), Arr(<<Obj(<<>>)>>),
     Obj(<<>>), Obj(<< <<<<"b">>, Num(1)>> >>)}

\* The structures of at most MaxTreeKeys top-level keys, in every key order.
CodecTrees ==
    {es \in UNION {[1..n -> CodecKeys \X CodecValues] : n \in 0..MaxTreeKeys} :
        \A i, j \in 1..Len(es) : i # j => es[i][1] # es[j][1]}

InitCodec ==
    /\ facades = <<>>
    /\ secrets = <<>>
    /\ script = Unscripted
    /\ last = NoCall
    /\ tree \in CodecTrees
    /\ flat = <<>>
    /\ rebuilt = Undefined
    /\ pending = NoPending

CodecFlatten ==
    /\ last.op = "none"
    /\ flat' = flatten(tree)
    /\ last' = [NoCall EXCEPT !.op = "flatten"]
    /\ UNCHANGED <<facades, secrets, script, tree, rebuilt, pending>>

CodecDeflatten ==
    /\ last.op = "flatten"
    /\ rebuilt' = deflatten(flat)
    /\ last' = [NoCall EXCEPT !.op = "deflatten"]
    /\ UNCHANGED <<facades, secrets, script, tree, flat, pending>>

NextCodec == CodecFlatten \/ CodecDeflatten

SpecCodec == InitCodec /\ [][NextCodec]_vars

\* A structure the round trip is stated for: no value that is an array
\* holding a mapping, no key containing '--'.
HasSeparator(key) ==
    \E i \in 1..(Len(key) - 1) : SubSeq(key, i, i + 1) = SEP

RECURSIVE RoundTripDomain(_)
RoundTripDomain(es) ==
    \A i \in 1..Len(es) :
        LET key == es[i][1]
            value == es[i][2]
        IN  /\ ~HasSeparator(key)
            /\ IsArray(value) => \A j \in 1..Len(value[2]) : ~IsObject(value[2][j])
            /\ IsObject(value) => RoundTripDomain(value[2])

\* C1: for every nested structure x, empty mappings included, with no
\* array-of-mappings value and no key containing '--',
\* deflatten(flatten(x)) deep-equals x.
C1_RoundTrip ==
    (last.op = "deflatten" /\ RoundTripDomain(tree)) => DeepEq(rebuilt, Obj(tree))

(***************************************************************************)
(* SpecAll: facades of several namespaces on one client, set and getAll    *)
(***************************************************************************)
NsPGF == Config(<<"p">>, Str(<<"g">>), Str(<<"f">>))
NsRGE == Config(<<"r">>, Str(<<"g">>), Str(<<"e">>))
NsPG == Config(<<"p">>, Str(<<"g">>), Undefined)

\* The first facade calls getAll; the second one writes beside it.
AllFacades == {<<AzureKeyVault(NsPGE), AzureKeyVault(ns)>> : ns \in {NsPHE, NsPGF, NsRGE}}
                  \cup {<<AzureKeyVault(NsPE), AzureKeyVault(NsPGE)>>,
                        <<AzureKeyVault(NsPG), AzureKeyVault(NsPGE)>>}
AllKeys == {KeyK, KeySharedK, KeyAK}
AllValues == {ValV, Val12}

InitAll == facades \in AllFacades /\ script = Unscripted /\ Idle

AllSet ==
    \E f \in DOMAIN facades, key \in AllKeys, value \in AllValues : Set(f, key, value)
AllGetAll == \E f \in DOMAIN facades : GetAll(f)

NextAll == AllSet \/ AllGetAll

SpecAll == InitAll /\ [][NextAll]_vars

\* The label a namespace's group or env is stored under: the text itself, and
\* the empty text when the namespace has none.
Label(field) == IF field = Undefined THEN Str(<<>>) ELSE field

\* The active records set under the namespace of `this`: by its own set, or
\* as shared secrets of its project and env.
SetUnder(this) ==
    {secrets[i][2] : i \in {j \in 1..Len(secrets) :
        LET rec == secrets[j][2]
        IN  /\ ~IsDeletedName(secrets[j][1])
            /\ rec.tags.project = this.project
            /\ rec.tags.env = Label(this.env)
            /\ rec.tags.group \in {Label(this.group), this.sharedGroup}}}

\* The flat key and the value a record was set with.
FlatKeyOf(rec) ==
    (IF rec.tags.path[2] = <<>> THEN <<>> ELSE rec.tags.path[2] \o SEP) \o rec.tags.name[2]
ValueOf(rec) == CHOOSE v \in AllValues : encode(v) = rec.value

\* What getAll returned, as a set of flat key and value pairs.
Returned ==
    LET fl == flatten(last.ret[2])
    IN  {<<fl[i][1], fl[i][2]>> : i \in 1..Len(fl)}

\* C12: getAll() on any namespace, one without group or without env included,
\* returns exactly the secrets set under its project, env and group or shared
\* group: all of them, and none of another project, env or group.
C12_GetAllIsExact ==
    last.op = "getAll" =>
        /\ ~IsThrow(last.ret)
        /\ Returned = {<<FlatKeyOf(rec), ValueOf(rec)>> : rec \in SetUnder(facades[last.f])}

\* The same for the namespaces that have both a group and an env.
C12_ConfiguredNamespaces ==
    (last.op = "getAll" /\ facades[last.f].group # Undefined
                        /\ facades[last.f].env # Undefined) =>
        /\ ~IsThrow(last.ret)
        /\ Returned = {<<FlatKeyOf(rec), ValueOf(rec)>> : rec \in SetUnder(facades[last.f])}

(***************************************************************************)
(* SpecTree: one facade; a tree is written with setAll, read with getAll   *)
(* and with getFor                                                         *)
(***************************************************************************)
KeySharedG == <<"$", "g">>

TreeFacades == {<<AzureKeyVault(NsPGE)>>}
TreeLeaves == {ValV, Num(1), Val12}
\* k, $k, a: {k}, a: {$k} and $g: {k}, with every leaf.
TreeEntries ==
    UNION {{<<KeyK, v>>, <<KeySharedK, v>>,
            <<KeyA, Obj(<< <<KeyK, v>> >>)>>,
            <<KeyA, Obj(<< <<KeySharedK, v>> >>)>>,
            <<KeySharedG, Obj(<< <<KeyK, v>> >>)>>} : v \in TreeLeaves}
\* The trees of one entry, and of two entries with different keys.
TreeTrees ==
    {<<e>> : e \in TreeEntries}
        \cup {<<d, e>> : d \in {c \in TreeEntries : c[2] \in {ValV, Obj(<< <<KeyK, ValV>> >>)}},
                        e \in {c \in TreeEntries : c[1] = KeySharedK \/ c[1] = KeyA}}

\* A tree with every leaf replaced by null.
RECURSIVE Nulled(_)
Nulled(es) ==
    [i \in 1..Len(es) |->
        <<es[i][1], IF IsObject(es[i][2]) THEN Obj(Nulled(es[i][2][2])) ELSE Null>>]

\* The keys getFor is asked for beside the tree's: one with a default text,
\* one with null.
KeyOther == <<"o">>
KeyNone == <<"z">>
Extras == << <<KeyOther, Str(<<"d">>)>>, <<KeyNone, Null>> >>

InitTree == facades \in TreeFacades /\ script = Unscripted /\ Idle

TreeSetAll == \E f \in DOMAIN facades, input \in TreeTrees : SetAll(f, input)
TreeGetAll == \E f \in DOMAIN facades : GetAll(f)
TreeGetFor == \E f \in DOMAIN facades : GetFor(f, Nulled(tree) \o Extras, FALSE)

NextTree == TreeSetAll \/ TreeGetAll \/ TreeGetFor

SpecTree == InitTree /\ [][NextTree]_vars

\* Every leaf of the tree written last is in the result at its path, with
\* the value it was written with.
LeavesReturned ==
    LET leaves == flatten(tree)
    IN  /\ ~IsThrow(last.ret)
        /\ \A i \in 1..Len(leaves) :
              AtPath(last.ret, SplitDashes(leaves[i][1])) = leaves[i][2]

\* What C13 says of the read that was made last.
TreeReadBack ==
    /\ last.op = "getAll" => LeavesReturned
    /\ last.op = "getFor" =>
          /\ LeavesReturned
          /\ \A i \in 1..Len(Extras) :
                AtPath(last.ret, <<Extras[i][1]>>) = Extras[i][2]

\* No key of a mapping of the tree begins with '$'; keys of leaves may.
RECURSIVE SigilOnLeavesOnly(_)
SigilOnLeavesOnly(es) ==
    \A i \in 1..Len(es) :
        IsObject(es[i][2]) => es[i][1][1] # "$" /\ SigilOnLeavesOnly(es[i][2][2])

\* C13: after setAll(x), for every tree x of string, number and array leaves
\* and nested mappings with '$'-prefixed keys at any level, getAll() holds
\* every leaf of x at its path with its value, and getFor(x with null leaves
\* and extra keys) returns every leaf with its stored value and the default of
\* every extra key that is not in the store.
C13_SetAllReadBack == tree # <<>> => TreeReadBack

\* The same for the trees whose '$'-prefixed keys are keys of leaves.
C13_SigilOnLeaves == (tree # <<>> /\ SigilOnLeavesOnly(tree)) => TreeReadBack

(***************************************************************************)
(* SpecBulk: facades of two groups, or of two envs, on one client; secrets *)
(* are set, then deleted, purged and restored in bulk                      *)
(***************************************************************************)
BulkFacades == {<<AzureKeyVault(NsPGE), AzureKeyVault(NsPHE)>>,
                <<AzureKeyVault(NsPGE), AzureKeyVault(NsPGF)>>}
BulkKeys == {KeyK, KeySharedK, KeyASharedK}
BulkValues == {ValV}

InitBulk == facades \in BulkFacades /\ script = Unscripted /\ Idle

BulkSet ==
    \E f \in DOMAIN facades, key \in BulkKeys, value \in BulkValues : Set(f, key, value)
BulkDeleteAll == \E f \in DOMAIN facades, skipShared \in BOOLEAN : DeleteAll(f, skipShared)
BulkPurgeAll == \E f \in DOMAIN facades, skipShared \in BOOLEAN : PurgeAll(f, skipShared)
BulkRestoreAll == \E f \in DOMAIN facades, skipShared \in BOOLEAN : RestoreAll(f, skipShared)

NextBulk == BulkSet \/ BulkDeleteAll \/ BulkPurgeAll \/ BulkRestoreAll

SpecBulk == InitBulk /\ [][NextBulk]_vars

\* The entries stored under the shared-group label, active or deleted, each
\* with the name it is kept under.
SharedEntries(ss) ==
    {ss[i] : i \in {j \in 1..Len(ss) : ss[j][2].tags.group = Str(<<"S", "H", "A", "R", "E", "D">>)}}

\* The shared entries of the project and env of the facade that made the call.
SharedOfCaller(ss, this) ==
    {e \in SharedEntries(ss) :
        e[2].tags.project = this.project /\ e[2].tags.env = this.env}

\* The name a deleted entry had when it was active.
ActiveName(name) == SubSeq(name, Len(DELETED_PREFIX) + 1, Len(name))

\* With skipShared = false the shared secrets of the caller's project and env
\* are deleted, purged, or restored (when no active secret is in the way).
SharedActedOn(op, this) ==
    \A e \in SharedOfCaller(secrets, this) :
        IF op = "deleteAll"
        THEN ~IsDeletedName(e[1]) =>
                /\ ~HasKey(secrets', e[1])
                /\ HasKey(secrets', DELETED_PREFIX \o e[1])
                /\ Lookup(secrets', DELETED_PREFIX \o e[1]) = e[2]
        ELSE IF op = "purgeAll"
        THEN IsDeletedName(e[1]) => ~HasKey(secrets', e[1])
        ELSE (IsDeletedName(e[1]) /\ ~HasKey(secrets, ActiveName(e[1]))) =>
                /\ ~HasKey(secrets', e[1])
                /\ HasKey(secrets', ActiveName(e[1]))
                /\ Lookup(secrets', ActiveName(e[1])) = e[2]

NsLabelled == [NsPGE EXCEPT !.sharedGroup = Str(<<"C">>)]

KeyABK == <<"a", ":", "b", ":", "k">>
KeyABSharedK == <<"a", "-", "-", "b", ":", "$", "k">>

TagsConfigs == {NsPGE, NsPE, NsPG, NsLabelled}
TagsFacades == {<<AzureKeyVault(ns)>> : ns \in TagsConfigs}
TagsKeys == {KeyK, KeySharedK, KeyAK, KeyASharedK, KeyABK, KeyABSharedK}
TagsValues == {ValV}

InitTags == facades \in TagsFacades /\ script = Unscripted /\ Idle

TagsSet ==
    \E f \in DOMAIN facades, key \in TagsKeys, value \in TagsValues : Set(f, key, value)
TagsGetInfo == \E f \in DOMAIN facades, key \in TagsKeys : GetInfo(f, key)

NextTags == TagsSet \/ TagsGetInfo

SpecTags == InitTags /\ [][NextTags]_vars

\* The segments of the keys of SpecTags, written out.
Segments(key) ==
    CASE key = KeyK -> << <<"k">> >>
      [] key = KeySharedK -> << <<"$", "k">> >>
      [] key = KeyAK -> << <<"a">>, <<"k">> >>
      [] key = KeyASharedK -> << <<"a">>, <<"$", "k">> >>
      [] key = KeyABK -> << <<"a">>, <<"b">>, <<"k">> >>
      [] key = KeyABSharedK -> << <<"a">>, <<"b">>, <<"$", "k">> >>

\* The ancestor segments joined by '--'.
RECURSIVE Ancestors(_)
Ancestors(segs) ==
    IF Len(segs) <= 1 THEN <<>>
    ELSE segs[1] \o (IF Len(segs) > 2 THEN <<"-", "-">> ELSE <<>>) \o Ancestors(Tail(segs))

FinalSegment(key) == Segments(key)[Len(Segments(key))]

\* A segment without its leading '$'.
Unsigiled(seg) == IF seg[1] = "$" THEN Tail(seg) ELSE seg

\* C19 as stated: the name tag set writes is the final segment of the key
\* without its leading '$', the path tag the ancestor segments joined by
\* dashes.
C19_Original ==
    last.op = "set" =>
        /\ last.ret[2].tags.name = Str(Unsigiled(FinalSegment(last.key)))
        /\ last.ret[2].tags.path = Str(Ancestors(Segments(last.key)))

\* C19 amended: the name tag is the final segment of the key as written, a
\* leading '$' kept; the path tag is the ancestor segments joined by '--'
\* (empty for a key of one segment).
C19_NameKeepsSigil ==
    last.op = "set" =>
        /\ last.ret[2].tags.name = Str(FinalSegment(last.key))
        /\ last.ret[2].tags.path = Str(Ancestors(Segments(last.key)))

\* C19 witness: a shared key under two ancestors was set.
C19_Witness ==
    /\ last.op = "set" /\ last.key = KeyABSharedK
    /\ last.ret[2].tags.name = Str(<<"$", "k">>)
    /\ last.ret[2].tags.path = Str(<<"a", "-", "-", "b">>)

\* The config the facade that made the last call was built from.
ConfigOfCaller == CHOOSE ns \in TagsConfigs : AzureKeyVault(ns) = facades[last.f]

\* The label shared secrets are stored under: the configured one, 'SHARED'
\* when none is.
SharedLabel(ns) ==
    IF ns.sharedGroup = Undefined THEN Str(<<"S", "H", "A", "R", "E", "D">>)
    ELSE ns.sharedGroup

\* C20: after set(k, v), the tags getInfo(k) returns have the project, group
\* and env of the facade's config (the empty text for a group or env that is
\* not configured), and the name k when k is not shared and not nested; for
\* a shared key the group tag is the shared-group label, 'SHARED' by default.
C20_TagsMatchConfig ==
    last.op = "set" =>
        LET info == getInfo(facades[last.f], secrets, last.key)
            ns == ConfigOfCaller
        IN  /\ info[1] = "secret"
            /\ info[2].tags.project = ns.project
            /\ info[2].tags.env = Label(ns.env)
            /\ info[2].tags.group =
                  (IF FinalSegment(last.key)[1] = "$" THEN SharedLabel(ns)
                   ELSE Label(ns.group))
            /\ last.key = KeyK => info[2].tags.name = Str(KeyK)

\* C20 witness: getInfo of a shared key set under a configured label gave
\* that label as the group, beside the project and env.
C20_Witness ==
    /\ last.op = "getInfo" /\ last.key = KeySharedK
    /\ facades[last.f] = AzureKeyVault(NsLabelled)
    /\ last.ret[1] = "secret"
    /\ last.ret[2].tags.group = Str(<<"C">>)
    /\ last.ret[2].tags.project = Str(<<"p">>)
    /\ last.ret[2].tags.env = Str(<<"e">>)

(***************************************************************************)
(* SpecNames: two facades built from any two configs, storage ids computed *)
(***************************************************************************)
NamesProjects == {<<"p">>, <<"P">>, <<"p", "-", "g">>}
NamesGroups == {Undefined, Str(<<"g">>)}
NamesEnvs == {Undefined, Str(<<"g">>), Str(<<"e">>)}
NamesConfigs ==
    {Config(project, group, env) :
        project \in NamesProjects, group \in NamesGroups, env \in NamesEnvs}
NamesFacades == {<<AzureKeyVault(c), AzureKeyVault(d)>> : c, d \in NamesConfigs}
NamesKeys == {KeyK, KeyAK}

InitNames == facades \in NamesFacades /\ script = Unscripted /\ Idle

\* keyVault.secretName(key, isShared)
SecretName(f, key, isShared) ==
    Read(Call("secretName", f, key, Bool(isShared),
              Str(secretName(facades[f], key, isShared))))

NamesSecretName ==
    \E f \in DOMAIN facades, key \in NamesKeys, isShared \in BOOLEAN :
        SecretName(f, key, isShared)

NextNames == NamesSecretName

SpecNames == InitNames /\ [][NextNames]_vars

\* The (project, group, env) triple a facade was built from.
Triple(this) == <<this.project, this.group, this.env>>

\* C21: two facades built from distinct (project, group, env) triples have
\* different scoped prefixes, and give different storage ids to the same
\* non-shared logical key.
C21_NoCollision ==
    last.op = "secretName" =>
        \A f, g \in DOMAIN facades :
            Triple(facades[f]) # Triple(facades[g]) =>
                /\ facades[f].prefix # facades[g].prefix
                /\ secretName(facades[f], last.key, FALSE)
                      # secretName(facades[g], last.key, FALSE)

(***************************************************************************)
(* SpecWrite: setAll, write by write, on a client whose writes can fail    *)
(***************************************************************************)
WriteFacades == {<<AzureKeyVault(NsPGE)>>}
\* {k: 'v', a: {k: 'w'}, $k: 'v'}, {k: 'w', a: {k: 'v'}} and {a: {$k: 'w', k: 'w'}}
WriteTrees ==
    { << <<KeyK, ValV>>, <<<<"a">>, Obj(<< <<KeyK, ValW>> >>)>>, <<KeySharedK, ValV>> >>,
      << <<KeyK, ValW>>, <<<<"a">>, Obj(<< <<KeyK, ValV>> >>)>> >>,
      << <<<<"a">>, Obj(<< <<KeySharedK, ValW>>, <<KeyK, ValW>> >>)>> >> }

InitWrite == facades \in WriteFacades /\ script = Unscripted /\ Idle

WriteBegin == \E f \in DOMAIN facades, input \in WriteTrees : SetAllBegin(f, input)
WriteStep == \E fault \in Faults : SetAllWrite(fault)
WriteReturn == SetAllReturn

NextWrite == WriteBegin \/ WriteStep \/ WriteReturn

SpecWrite == InitWrite /\ [][NextWrite]_vars

\* The storage id set writes a flat key under.
WriteId(this, key) == secretName(this, key, setIsShared(key))

\* The first n flat keys are in the store with their values, and the store
\* holds under every later key what it held when setAll was called.
PrefixWritten(this, es, base, n) ==
    \A j \in 1..Len(es) :
        LET id == WriteId(this, es[j][1])
        IN  IF j <= n
            THEN HasKey(secrets, id) /\ Lookup(secrets, id).value = encode(es[j][2])
            ELSE /\ HasKey(secrets, id) <=> HasKey(base, id)
                 /\ HasKey(base, id) => Lookup(secrets, id) = Lookup(base, id)

\* C22: while setAll runs, and after it has returned or failed, the keys it
\* has written are the first i-1 flat keys in input order, i being the place
\* of the write it is at; when the i-th write fails setAll fails with the
\* first i-1 keys written and no later one, and it returns its records only
\* when every key is written.
C22_PrefixWritten ==
    pending.op = "setAll" =>
        LET job == pending.job
        IN  /\ job.i \in 1..(Len(job.secrets) + 1)
            /\ Len(job.results) = job.i - 1
            /\ PrefixWritten(facades[job.f], job.secrets, pending.base, job.i - 1)
            /\ pending.status = "failed" =>
                  /\ job.i <= Len(job.secrets)
                  /\ last.op = "setAll" /\ last.ret = Failure
            /\ pending.status = "done" =>
                  /\ job.i = Len(job.secrets) + 1
                  /\ last.op = "setAll" /\ ~IsThrow(last.ret)

\* C22 witness: the second of three writes failed on a store that held none
\* of the keys: the first key is there, the two others are not.
C22_Witness ==
    /\ pending.op = "setAll" /\ pending.status = "failed"
    /\ pending.base = <<>>
    /\ Len(pending.job.secrets) = 3 /\ pending.job.i = 2
    /\ Len(secrets) = 1
    /\ secrets[1][1] = WriteId(facades[pending.job.f], KeyK)
    /\ last.ret = Failure

(***************************************************************************)
(* SpecRaw: secrets written straight to the client, read through a facade  *)
(***************************************************************************)
RawFacades == {<<AzureKeyVault(NsPGE)>>}
RawKeys == {KeyK, KeyAK}
\* '[1]', '{' and 'v'
TextArray == Str(<<"[", "1", "]">>)
TextBroken == Str(<<"{">>)
RawTexts == {TextArray, TextBroken, ValV}
\* What is not JSON among the texts.
Malformed == {TextBroken, ValV}

\* tags of a secret that was stored without any: every field is undefined.
NoTags ==
    [name |-> Undefined, path |-> Undefined, env |-> Undefined,
     project |-> Undefined, group |-> Undefined, serialized |-> Undefined]
RawFlags == {Undefined, Str(<<"0">>), Str(<<"1">>)}

InitRaw == facades \in RawFacades /\ script = Unscripted /\ Idle

RawSetSecret ==
    \E f \in DOMAIN facades, key \in RawKeys, text \in RawTexts, flag \in RawFlags :
        ClientSetSecret(secretName(facades[f], key, FALSE), text,
                        [NoTags EXCEPT !.serialized = flag])
RawSet == \E f \in DOMAIN facades, key \in RawKeys : Set(f, key, Num(1))
RawGet ==
    \E f \in DOMAIN facades, key \in RawKeys, serialized \in BOOLEAN :
        GetHinted(f, key, serialized)

NextRaw == RawSetSecret \/ RawSet \/ RawGet

SpecRaw == InitRaw /\ [][NextRaw]_vars

\* The record a get of the last call's key reads.
RawId == secretName(facades[last.f], last.key, FALSE)
RawRecord == Lookup(secrets, RawId)

\* C23: get of a secret that is flagged serialized = '1' and whose stored
\* value is not JSON fails: it returns neither a value nor null.
C23_MalformedIsFatal ==
    ( /\ last.op = "get" /\ HasKey(secrets, RawId)
      /\ RawRecord.tags.serialized = Str(<<"1">>)
      /\ RawRecord.value \in Malformed )
        => IsThrow(last.ret)

\* C24: get(k, hint) of a secret that has the serialized tag decodes by the
\* tag; of a secret without the tag it returns the parsed value when the hint
\* is true and the stored string when it is false.
C24_HintDecides ==
    (last.op = "get" /\ HasKey(secrets, RawId) /\ RawRecord.value = TextArray) =>
        LET byTag == RawRecord.tags.serialized
            parsed == IF byTag = Undefined THEN last.arg = Bool(TRUE)
                      ELSE byTag = Str(<<"1">>)
        IN  last.ret = IF parsed THEN Arr(<<Num(1)>>) ELSE TextArray

(***************************************************************************)
(* SpecFetch: getFor, fetch by fetch, on a client that answers in any      *)
(* order and whose requests can fail; the store is written only while no   *)
(* getFor is running                                                       *)
(***************************************************************************)
FetchFacades == {<<AzureKeyVault(NsPGE)>>}
FetchKeys == {KeyA, KeyC}
FetchValues == {ValA, Null}
\* {a: null, b: 'x', c: []}, {a: 'x', c: null} and {c: {a: null}}
FetchTrees ==
    { ExampleDefaults,
      << <<KeyA, Str(<<"x">>)>>, <<KeyC, Null>> >>,
      << <<KeyC, Obj(<< <<KeyA, Null>> >>)>> >> }

InitFetch == facades \in FetchFacades /\ script = Unscripted /\ Idle

FetchSet ==
    /\ pending.status # "running"
    /\ \E f \in DOMAIN facades, key \in FetchKeys, value \in FetchValues : Set(f, key, value)
FetchBegin ==
    \E f \in DOMAIN facades, input \in FetchTrees, override \in BOOLEAN :
        GetForBegin(f, input, override)
FetchIssue == GetForIssue
FetchSettle ==
    \E k \in 1..Len(ExampleDefaults), fault \in Faults : GetForSettle(k, fault)
FetchAwait == GetForAwait
FetchReturn == GetForReturn

NextFetch ==
    FetchSet \/ FetchBegin \/ FetchIssue \/ FetchSettle \/ FetchAwait \/ FetchReturn

SpecFetch == InitFetch /\ [][NextFetch]_vars

\* getFor itself runs on: each loop takes its next turn when it can.  Nothing
\* is asked of the client: a request may stay unanswered for ever.
SpecFetchRuns ==
    SpecFetch /\ WF_vars(FetchIssue) /\ WF_vars(FetchAwait) /\ WF_vars(FetchReturn)

\* C27: getFor has made the promise of every key (and with it issued every
\* fetch) before the first of them has been awaited; and when no fetch
\* failed, what it returns is what the store it ran on (`pending.base`) gives
\* for the input, whatever the order in which the fetches were answered.
C27_OrderIsIrrelevant ==
    pending.op = "getFor" =>
        LET job == pending.job
        IN  /\ job.j > 1 => Len(job.promises) = Len(job.secrets)
            /\ (pending.status = "done" /\ last.op = "getFor" /\ job.failed = {}) =>
                  last.ret = getFor(facades[job.f], pending.base, job.arg, job.override)

\* C27 witness: with override, the fetch of the third key was answered while
\* the two before it were in flight; getFor then went on to return a: 'A'.
C27_Witness ==
    /\ pending.op = "getFor" /\ pending.status = "running"
    /\ pending.job.arg = ExampleDefaults /\ pending.job.override
    /\ pending.job.promises = <<InFlight, InFlight, Fulfilled(Null)>>
    /\ pending.job.j = 1 /\ pending.job.failed = {}
    /\ getFor(facades[pending.job.f], pending.base, ExampleDefaults, TRUE)
          = Obj(<< <<KeyA, ValA>>, <<KeyB, Str(<<"x">>)>>, <<KeyC, Arr(<<>>)>> >>)

\* getFor has returned, and nothing was called since.
FetchReturned == pending.op = "getFor" /\ pending.status = "done" /\ last.op = "getFor"

\* Every fetch getFor had to issue is issued and answered.
FetchesSettled ==
    /\ pending.op = "getFor" /\ pending.status = "running"
    /\ Len(pending.job.promises) = Len(pending.job.secrets)
    /\ \A k \in 1..Len(pending.job.promises) : pending.job.promises[k] # InFlight

\* The keys whose fetch failed or gave null have their default in the result,
\* and the result is a value, not a failure.
DefaultsKept ==
    LET job == pending.job
        defaults == flatten(job.arg)
    IN  /\ ~IsThrow(last.ret)
        /\ \A k \in 1..Len(defaults) :
              LET key == defaults[k][1]
                  fetched == job.override \/ ~KeepsDefault(defaults[k][2])
              IN  (k \in job.failed \/ (fetched /\ get(facades[job.f], pending.base, key) = Null))
                      => AtPath(last.ret, SplitDashes(key)) = defaults[k][2]

\* C28: what getFor returns holds the default of every key whose fetch failed
\* or gave null, and is never a failure; and once every fetch it issued is
\* answered, getFor does return.
C28_FailedFetchKeepsDefault ==
    /\ [](FetchReturned => DefaultsKept)
    /\ FetchesSettled ~> (pending.status = "done")

\* C28 witness: a = 'A' is stored, its fetch failed, and getFor returned the
\* default null for a.
C28_Witness ==
    /\ FetchReturned
    /\ pending.job.arg = ExampleDefaults /\ pending.job.failed = {1}
    /\ get(facades[pending.job.f], pending.base, KeyA) = ValA
    /\ AtPath(last.ret, <<KeyA>>) = Null

(***************************************************************************)
(* SpecFaulty: one facade on a client whose requests can fail              *)
(***************************************************************************)
FaultyFacades == {<<AzureKeyVault(NsPGE)>>}
FaultyKeys == {KeyK, KeyAK}
FaultyValues == {ValV}

InitFaulty == facades \in FaultyFacades /\ script = Unscripted /\ Idle

FaultySet ==
    \E f \in DOMAIN facades, key \in FaultyKeys, value \in FaultyValues, fault \in Faults :
        SetOn(f, key, value, fault)
FaultyGet == \E f \in DOMAIN facades, key \in FaultyKeys, fault \in Faults : GetOn(f, key, fault)
FaultyGetInfo ==
    \E f \in DOMAIN facades, key \in FaultyKeys, fault \in Faults : GetInfoOn(f, key, fault)
FaultyDelete ==
    \E f \in DOMAIN facades, key \in FaultyKeys, fault \in BeginFaults : DeleteOn(f, key, fault)
FaultyPurge ==
    \E f \in DOMAIN facades, key \in FaultyKeys, fault \in Faults : PurgeOn(f, key, fault)
FaultyRestore ==
    \E f \in DOMAIN facades, key \in FaultyKeys, fault \in BeginFaults : RestoreOn(f, key, fault)
FaultyGetAll ==
    \E f \in DOMAIN facades, faults \in [1..Len(secrets) -> Faults] : GetAllOn(f, faults)
FaultyDeleteAll ==
    \E f \in DOMAIN facades, faults \in [1..Len(bulkItems("delete", secrets)) -> BeginFaults] :
        BulkOn("delete", f, faults)
FaultyPurgeAll ==
    \E f \in DOMAIN facades, faults \in [1..Len(bulkItems("purge", secrets)) -> Faults] :
        BulkOn("purge", f, faults)
FaultyRestoreAll ==
    \E f \in DOMAIN facades, faults \in [1..Len(bulkItems("restore", secrets)) -> BeginFaults] :
        BulkOn("restore", f, faults)

NextFaulty ==
    \/ FaultySet \/ FaultyGet \/ FaultyGetInfo \/ FaultyDelete \/ FaultyPurge \/ FaultyRestore
    \/ FaultyGetAll \/ FaultyDeleteAll \/ FaultyPurgeAll \/ FaultyRestoreAll

SpecFaulty == InitFaulty /\ [][NextFaulty]_vars

\* The keys of the store a bulk call is made for: every active secret for
\* getAll and deleteAll, every deleted one for purgeAll and restoreAll (all
\* secrets of SpecFaulty are the facade's own).
Enumerated(op, ss) ==
    IF op \in {"getAll", "deleteAll"}
    THEN {i \in 1..Len(ss) : ~IsDeletedName(ss[i][1])}
    ELSE {i \in 1..Len(ss) : IsDeletedName(ss[i][1])}

\* The place the i-th entry of the store has among the items the call lists.
ListedAt(op, ss, i) ==
    IF op \in {"getAll", "deleteAll"} THEN i
    ELSE Cardinality({j \in 1..i : IsDeletedName(ss[j][1])})

\* The bulk call did for the secret `rec` what it does for a key.
Processed(op, rec, ret, ss) ==
    LET deletedName == DELETED_PREFIX \o rec.name
    IN  IF op = "getAll"
        THEN AtPath(ret, SplitDashes(listKey(rec.tags, SEP))) = decode(rec.value, rec.tags)
        ELSE IF op = "deleteAll" THEN ~HasKey(ss, rec.name) /\ HasKey(ss, deletedName)
        ELSE IF op = "purgeAll" THEN ~HasKey(ss, deletedName)
        ELSE HasKey(ss, rec.name) /\ ~HasKey(ss, deletedName)

\* C29: a bulk call (getAll, deleteAll, purgeAll, restoreAll) in which the
\* request for one enumerated key fails, at once or later, does not fail, and
\* every enumerated key whose own request did not fail has been processed.
C29_BulkGoesOn ==
    [][last'.op \in {"getAll", "deleteAll", "purgeAll", "restoreAll"} =>
          /\ ~IsThrow(last'.ret)
          /\ \A i \in Enumerated(last'.op, secrets) :
                ( /\ last'.faults[ListedAt(last'.op, secrets, i)] = "none"
                  /\ last'.op = "restoreAll" => ~HasKey(secrets, secrets[i][2].name) )
                    => Processed(last'.op, secrets[i][2], last'.ret, secrets')]_vars

\* C30: a single-key call (get, getInfo, set, delete, purge, restore) whose
\* request the client fails, at once or later, fails for its caller.
C30_FailurePropagates ==
    ( /\ last.op \in {"get", "getInfo", "set", "delete", "purge", "restore"}
      /\ last.faults[1] # "none" )
        => IsThrow(last.ret)

(***************************************************************************)
(* SpecSweep: the bulk calls, item by item                                 *)
(***************************************************************************)
SweepFacades == {<<AzureKeyVault(NsPGE)>>}
SweepKeys == {KeyK, KeyAK, KeySharedK}
SweepValues == {ValV}

InitSweep == facades \in SweepFacades /\ script = Unscripted /\ Idle

SweepSet ==
    /\ pending.status # "running"
    /\ \E f \in DOMAIN facades, key \in SweepKeys, value \in SweepValues : Set(f, key, value)
SweepStart ==
    \E op \in SweepOps, f \in DOMAIN facades, skipShared \in BOOLEAN :
        SweepBegin(op, f, skipShared)
SweepNext == SweepTake
SweepAnswered == \E k \in 1..MaxSecrets : SweepAnswer(k)
SweepEnd == SweepReturn

NextSweep == SweepSet \/ SweepStart \/ SweepNext \/ SweepAnswered \/ SweepEnd

SpecSweep == InitSweep /\ [][NextSweep]_vars

\* C31: while a bulk call runs, the only per-key request that can be
\* outstanding is the one made for the item taken last: the call for an
\* item is answered before the next item is taken, so at most one is
\* outstanding; and the bulk call ends as the calls made one after the other
\* on the store end.
C31_OneAtATime ==
    pending.op \in SweepOps =>
        LET job == pending.job
            this == facades[job.f]
        IN  /\ job.outstanding \subseteq {job.i - 1}
            /\ Cardinality(job.outstanding) <= 1
            /\ (pending.status = "done" /\ last.op = pending.op) =>
                  IF pending.op = "getAll"
                  THEN last.ret = getAll(this, pending.base) /\ secrets = pending.base
                  ELSE secrets = bulkLoop(sweepCall(pending.op), this, pending.base,
                                          sweepItems(pending.op, pending.base),
                                          job.skipShared)

\* C31 witness: purgeAll has purged the first of two deleted secrets and is
\* waiting for the purge of the second.
C31_Witness ==
    /\ pending.op = "purgeAll" /\ pending.status = "running"
    /\ Len(pending.job.items) = 2
    /\ pending.job.i = 3 /\ pending.job.outstanding = {2}
    /\ Len(pending.base) = 2 /\ Len(secrets) = 1

(***************************************************************************)
(* SpecClash: deflatten on flat mappings whose paths run into each other   *)
(***************************************************************************)
KeyAB == <<"a", "-", "-", "b">>
KeyABC == <<"a", "-", "-", "b", "-", "-", "c">>
ClashKeys == {KeyAB, KeyABC, <<"a", "-", "-", "c">>, <<"b">>}
ClashScalars ==
    {Str(<<"x">>), Str(<<>>), Num(1), Num(0), Bool(TRUE), Bool(FALSE), Null}

\* The flat mappings of one or two entries, in both key orders.
ClashFlats ==
    {es \in UNION {[1..n -> ClashKeys \X ClashScalars] : n \in 1..2} :
        \A i, j \in 1..Len(es) : i # j => es[i][1] # es[j][1]}

InitClash ==
    /\ facades = <<>>
    /\ secrets = <<>>
    /\ script = Unscripted
    /\ last = NoCall
    /\ tree = <<>>
    /\ flat \in ClashFlats
    /\ rebuilt = Undefined
    /\ pending = NoPending

ClashDeflatten ==
    /\ last.op = "none"
    /\ rebuilt' = deflatten(flat)
    /\ last' = [NoCall EXCEPT !.op = "deflatten"]
    /\ UNCHANGED <<facades, secrets, script, tree, flat, pending>>

NextClash == ClashDeflatten

SpecClash == InitClash /\ [][NextClash]_vars

\* A scalar at 'a--b' and a value at 'a--b--c'.
Conflicting(es) ==
    /\ Len(es) = 2
    /\ {es[1][1], es[2][1]} = {KeyAB, KeyABC}

\* What the entry processed last asks to be at a.b.
LastWrite(es) ==
    IF es[2][1] = KeyAB THEN es[2][2] ELSE Obj(<< <<<<"c">>, es[2][2]>> >>)

\* C32: deflatten of a flat mapping with a scalar at 'a--b' and a value at
\* 'a--b--c' returns, and a.b is what the entry processed last puts there,
\* in either order of the two entries and for every scalar.
C32_LastWriteWins ==
    (last.op = "deflatten" /\ Conflicting(flat)) =>
        /\ ~IsThrow(rebuilt)
        /\ Lookup(Lookup(rebuilt[2], <<"a">>)[2], <<"b">>) = LastWrite(flat)

(***************************************************************************)
(* SpecAddr: every per-key call, on keys with '$' in any place             *)
(***************************************************************************)
KeySharedAK == <<"$", "a", ":", "k">>
KeyMidK == <<"a", "$", "k">>

AddrFacades == {<<AzureKeyVault(NsPGE)>>, <<AzureKeyVault(NsPE)>>, <<AzureKeyVault(NsQG)>>}
AddrKeys == {KeyK, KeySharedK, KeyAK, KeyASharedK, KeySharedAK, KeyMidK}
AddrValues == {ValV}

InitAddr == facades \in AddrFacades /\ script = Unscripted /\ Idle

AddrSet ==
    \E f \in DOMAIN facades, key \in AddrKeys, value \in AddrValues : Set(f, key, value)
AddrGet == \E f \in DOMAIN facades, key \in AddrKeys : Get(f, key)
AddrGetInfo == \E f \in DOMAIN facades, key \in AddrKeys : GetInfo(f, key)
AddrDelete == \E f \in DOMAIN facades, key \in AddrKeys : Delete(f, key)
AddrPurge == \E f \in DOMAIN facades, key \in AddrKeys : Purge(f, key)
AddrRestore == \E f \in DOMAIN facades, key \in AddrKeys : Restore(f, key)

NextAddr ==
    AddrSet \/ AddrGet \/ AddrGetInfo \/ AddrDelete \/ AddrPurge \/ AddrRestore

SpecAddr == InitAddr /\ [][NextAddr]_vars

\* C33: right after set(k, v), for every key k, the storage id set wrote
\* (the name of the record it returned) is the id get, getInfo, delete, purge
\* and restore address for k: getInfo(k) gives the record just written and
\* delete(k) finds the secret.
C33_SameId ==
    last.op = "set" =>
        LET this == facades[last.f]
        IN  /\ last.ret[2].name = secretName(this, last.key, keyIsShared(last.key))
            /\ getInfo(this, secrets, last.key) = last.ret
            /\ delete(this, secrets, last.key).ret # Null

(***************************************************************************)
(* SpecWipe: secrets are set and deleted key by key, deleted and restored  *)
(* in bulk, and read with getAll                                           *)
(***************************************************************************)
WipeFacades == {<<AzureKeyVault(NsPGE), AzureKeyVault(NsPHE)>>,
                <<AzureKeyVault(NsPE)>>, <<AzureKeyVault(NsQG)>>}
WipeKeys == {KeyK, KeyAK, KeySharedK}
WipeValues == {ValV, ValW}

InitWipe == facades \in WipeFacades /\ script = Unscripted /\ Idle

WipeSet ==
    \E f \in DOMAIN facades, key \in WipeKeys, value \in WipeValues : Set(f, key, value)
WipeDelete == \E f \in DOMAIN facades, key \in WipeKeys : Delete(f, key)
WipeDeleteAll == \E f \in DOMAIN facades, skipShared \in BOOLEAN : DeleteAll(f, skipShared)
WipeRestoreAll == \E f \in DOMAIN facades, skipShared \in BOOLEAN : RestoreAll(f, skipShared)
WipeGetAll == \E f \in DOMAIN facades : GetAll(f)

NextWipe == WipeSet \/ WipeDelete \/ WipeDeleteAll \/ WipeRestoreAll \/ WipeGetAll

SpecWipe == InitWipe /\ [][NextWipe]_vars

\* The tags carry the facade's project, env and group, as set writes them for
\* a non-shared key.
OwnTags(this, tags) ==
    /\ tags.project = this.project
    /\ tags.env = OrEmpty(this.env)
    /\ tags.group = OrEmpty(this.group)

\* The positions of the active secrets of the facade's own group.
OwnActive(ss, this) ==
    {i \in 1..Len(ss) : ~IsDeletedName(ss[i][1]) /\ OwnTags(this, ss[i][2].tags)}

\* C34: a step of deleteAll(), on any namespace, leaves no active secret with
\* the namespace's project, env and group: each one that was active is kept
\* under its deleted name afterwards.
C34_NothingActiveLeft ==
    [][last'.op = "deleteAll" =>
          /\ OwnActive(secrets', facades[last'.f]) = {}
          /\ \A i \in OwnActive(secrets, facades[last'.f]) :
                /\ ~HasKey(secrets', secrets[i][1])
                /\ HasKey(secrets', DELETED_PREFIX \o secrets[i][1])]_vars

\* The namespace has a group and an env.
Configured(this) == this.group # Undefined /\ this.env # Undefined

\* Two results hold the same keys with the same values, at every depth, in
\* whatever order the keys come.
RECURSIVE SameValue(_, _)
SameValue(a, b) ==
    IF a[1] = "object" /\ b[1] = "object"
    THEN /\ Len(a[2]) = Len(b[2])
         /\ \A i \in 1..Len(a[2]) :
                \E j \in 1..Len(b[2]) :
                    a[2][i][1] = b[2][j][1] /\ SameValue(a[2][i][2], b[2][j][2])
    ELSE a = b

\* getAll() after the restoreAll() that follows a deleteAll() which led from
\* `before` to `after`, against getAll() before the deleteAll().
RoundTrip(this, before, after) ==
    SameValue(getAll(this, restoreAll(this, after, TRUE).store), getAll(this, before))

\* No secret of the facade's own group is in the deleted state.
NoneDeleted(ss, this) ==
    \A i \in 1..Len(ss) : IsDeletedName(ss[i][1]) => ~OwnTags(this, ss[i][2].tags)

\* C35 as stated: on a namespace with group and env, whatever was set and
\* deleted before, a step of deleteAll() is undone by the restoreAll() that
\* follows it: getAll() gives then what it gave before the deleteAll().
C35_Original ==
    [][(last'.op = "deleteAll" /\ last'.arg = Bool(TRUE)
            /\ Configured(facades[last'.f]))
          => RoundTrip(facades[last'.f], secrets, secrets')]_vars

\* C35 amended: the same, when no secret of the namespace is in the deleted
\* state at the time deleteAll() is called.
C35_RoundTrip ==
    [][(last'.op = "deleteAll" /\ last'.arg = Bool(TRUE)
            /\ Configured(facades[last'.f])
            /\ NoneDeleted(secrets, facades[last'.f]))
          => RoundTrip(facades[last'.f], secrets, secrets')]_vars

\* C35 witness: deleteAll() has deleted the two secrets of the namespace, and
\* getAll() after restoreAll() gives both values again.
C35_Witness ==
    /\ last.op = "deleteAll" /\ last.arg = Bool(TRUE) /\ last.f = 1
    /\ Configured(facades[1])
    /\ HasKey(secrets, DELETED_PREFIX \o <<"p", "-", "g", "-", "e", "-", "k">>)
    /\ HasKey(secrets, DELETED_PREFIX \o <<"p", "-", "g", "-", "e", "-", "a", "-", "-", "k">>)
    /\ SameValue(getAll(facades[1], restoreAll(facades[1], secrets, TRUE).store),
                 Obj(<< <<KeyK, ValV>>, <<KeyA, Obj(<< <<KeyK, ValW>> >>)>> >>))

(***************************************************************************)
(* C36, under SpecShare                                                    *)
(***************************************************************************)
\* 'k' for '$k' and '$k' for 'k'.
Counterpart(key) == IF key = KeyK THEN KeySharedK ELSE KeyK

\* C36: on every namespace, with or without group and env, '$k' and 'k' have
\* different storage ids: a set of one of them leaves the value get returns
\* for the other, once set, as it was.
C36_SigilKeepsApart ==
    [][(last'.op = "set" /\ last'.key \in {KeyK, KeySharedK}
            /\ get(facades[last'.f], secrets, Counterpart(last'.key)) # Null)
          => /\ secretName(facades[last'.f], KeyK, FALSE)
                    # secretName(facades[last'.f], KeySharedK, TRUE)
             /\ get(facades[last'.f], secrets', Counterpart(last'.key))
                    = get(facades[last'.f], secrets, Counterpart(last'.key))]_vars

(***************************************************************************)
(* C37, under SpecWipe                                                     *)
(***************************************************************************)
\* The facade has an active secret for the key.
ActiveFor(this, ss, key) == HasKey(ss, secretName(this, key, keyIsShared(key)))

\* C37: every key of the result of getAll(), at whatever depth, is the key of
\* a secret that is active: a key that was set and then deleted is not in the
\* result, not even with the value null.
C37_OnlyActiveListed ==
    (last.op = "getAll" /\ ~IsThrow(last.ret)) =>
        LET found == flatten(last.ret[2])
        IN  \A i \in 1..Len(found) : ActiveFor(facades[last.f], secrets, found[i][1])

(***************************************************************************)
(* C38, under SpecLife                                                     *)
(***************************************************************************)
\* C38: a step of restore(k) taken while k has an active secret fails
\* softly (it returns null) and leaves the store as it is, so get(k) returns
\* what it returned before: after set(k, v1), delete(k), set(k, v2) and
\* restore(k), get(k) returns v2.
C38_RestoreKeepsActive ==
    [][(last'.op = "restore"
            /\ HasKey(secrets, LifeId(last'.key)))
          => /\ last'.ret = Null
             /\ secrets' = secrets
             /\ get(facades[last'.f], secrets', last'.key)
                    = get(facades[last'.f], secrets, last'.key)]_vars

\* C38 witness: 'k' was set to 'v', deleted, set to 'w', and the restore
\* returned null: 'w' is active, 'v' is still kept as deleted.
C38_Witness ==
    /\ last.op = "restore" /\ last.key = KeyK /\ last.ret = Null
    /\ ScriptIs(<<"set", "restore">>)
    /\ HasKey(secrets, LifeId(KeyK))
    /\ Lookup(secrets, LifeId(KeyK)).value = ValW
    /\ HasKey(secrets, DELETED_PREFIX \o LifeId(KeyK))
    /\ Lookup(secrets, DELETED_PREFIX \o LifeId(KeyK)).value = ValV
    /\ get(facades[last.f], secrets, KeyK) = ValW

====
